---- MODULE Spec2Model ----
(***************************************************************************)
(* Verification model of veil-proxy: gRPC framing, the Proxy-Wasm host     *)
(* calls, the HTTP/3 request handler and the optimized router.             *)
(* Byte strings and text are sequences; every subsystem has its own        *)
(* specification over the variables it uses.                               *)
(***************************************************************************)
EXTENDS Integers, Sequences, FiniteSets, TLC

VARIABLES
    \* ---- gRPC framing: one-shot encode / decode (src/grpc/framing.rs)
    frame,              \* the GrpcFrame being encoded
    max_size,           \* max_size argument of decode_grpc_frame_with_max_size
    stage,              \* "start", "encoded" or "decoded"
    encoded,            \* bytes returned by GrpcFrame::encode
    result,             \* value returned by the decode
    \* ---- gRPC framing: GrpcFrameDecoder
    sent,               \* frames whose encodings were put on the wire, in order
    wire,               \* encoded bytes not yet handed to push()
    buffer,             \* GrpcFrameDecoder.buffer
    max_message_size,   \* GrpcFrameDecoder.max_message_size
    decoded,            \* frames returned by decode_next as Ok(Some(frame))
    last_decode,        \* outcome of the latest decode_next call
    \* ---- Proxy-Wasm host calls (src/wasm/host, src/wasm/context.rs)
    grpc_feature,       \* whether the build has feature = "grpc"
    http_ctx,           \* HostState.http_ctx of the calling module
    last_call,          \* the latest host call: its arguments and its return value
    \* ---- HTTP/3 server (src/http3_server.rs)
    current_config,     \* CURRENT_CONFIG: the snapshot the atomic pointer holds
    connections,        \* ConnectionMap: connection id -> Http3Handler
    started,            \* number of requests begun so far
    acquire_calls,      \* per upstream server: calls of Server::acquire
    release_calls,      \* per upstream server: calls of Server::release
    \* ---- routing (src/routing/mod.rs)
    routes,             \* the configuration's routes, in declaration order
    router,             \* the OptimizedRouter built from them
    finalized,          \* finalize() has run
    lookup,             \* the latest request and the candidates returned for it
    \* ---- HTTP/2 client (src/http2/client.rs)
    h2c,                \* the H2cClient and the request it is carrying
    h2_wire,            \* what went over the connection, as the peer books it
    \* ---- shared queues (src/wasm/host/shared_queue.rs, src/wasm/queue_notify.rs)
    shared_queues,      \* SHARED_QUEUES: the SharedQueueRegistry
    queue_subscriptions,\* QUEUE_SUBSCRIPTIONS.subscriptions
    notifying,          \* the notify_queue_subscribers call in progress
    queue_log,          \* the latest host call, and the callbacks owed
    \* ---- tick manager (src/wasm/tick_manager.rs) and callbacks into module contexts
    tick_configs,       \* TICK_CONFIGS.configs: module name -> ModuleTickConfig
    tick_now,           \* Instant::now(), in milliseconds
    callbacks,          \* per thread: the modules it is about to call and the one it is in
    host_state_lock,    \* per module context: the thread that holds its host-state mutex
    tick_log,           \* modules whose period is 0, and on_tick calls made to them
    \* ---- HTTP call executor (src/wasm/http_executor.rs)
    http_exec,          \* one execute_http_call_safe call: its inputs, its position, its result
    \* ---- HTTP/3 response sending (src/http3_server.rs)
    h3_stream,          \* one request stream: the response handle_request sends and what was written
    \* ---- Route cache across configuration swaps (src/routing/mod.rs)
    route_cache,        \* RouteCache.cache: the LRU entries, most recently used first
    snapshot,           \* the configuration snapshot currently published
    lookups,            \* each worker's lookup: its snapshot handle, key, position and answer
    \* ---- grpc-timeout header (src/grpc/headers.rs)
    grpc_timeout,       \* one duration: formatted, then parsed back
    \* ---- grpc-message header (src/grpc/status.rs)
    grpc_message,       \* one status message: percent-encoded, then decoded
    \* ---- gRPC stream state (src/grpc/stream.rs)
    grpc_stream,        \* GrpcStreamState of one stream
    \* ---- response buffering decision (src/buffering/config.rs)
    buffering,          \* a BufferingConfig, an upstream response and the decision taken
    \* ---- route cache key (src/routing/mod.rs RouteCacheKey)
    key_routes,         \* the routes of the snapshot, with the conditions the indices do not decide
    key_cache,          \* RouteCache.cache of the snapshot's router
    key_lookup,         \* the last lookup: the request, its answer and where the answer came from
    \* ---- HTTP/3 response body (src/http3_server.rs)
    h3_body,            \* one response body: what the stream received and what is kept for flushing
    \* ---- HTTP/3 request events (src/http3_server.rs)
    h3_request,         \* one request stream: the events still to arrive and the bodies handed to handle_request
    \* ---- HTTP/2 client read buffer (src/http2/client.rs)
    h2_read             \* the read buffer of one H2cClient, the bytes its peer has still to deliver and the frames read_frame returned

framingVars == <<frame, max_size, stage, encoded, result>>
decoderVars == <<sent, wire, buffer, max_message_size, decoded, last_decode>>
wasmVars == <<grpc_feature, http_ctx, last_call>>
http3Vars == <<current_config, connections, started, acquire_calls, release_calls>>
routerVars == <<routes, router, finalized, lookup>>
h2Vars == <<h2c, h2_wire>>
queueVars == <<shared_queues, queue_subscriptions, notifying, queue_log>>
tickVars == <<tick_configs, tick_now, callbacks, host_state_lock, tick_log>>
execVars == <<http_exec>>
h3sendVars == <<h3_stream>>
cacheVars == <<route_cache, snapshot, lookups>>
timeoutVars == <<grpc_timeout>>
messageVars == <<grpc_message>>
streamVars == <<grpc_stream>>
bufferingVars == <<buffering>>
keyVars == <<key_routes, key_cache, key_lookup>>
h3bodyVars == <<h3_body>>
h3requestVars == <<h3_request>>
readVars == <<h2_read>>

\* ------------------------------------------------------------------------
\* Sequence helpers
\* ------------------------------------------------------------------------
Take(s, n) == SubSeq(s, 1, n)
Drop(s, n) == SubSeq(s, n + 1, Len(s))
StartsWith(s, p) == Len(p) <= Len(s) /\ Take(s, Len(p)) = p
EndsWith(s, p) == Len(p) <= Len(s) /\ Drop(s, Len(s) - Len(p)) = p


\* ========================================================================
\* Proxy-Wasm host calls (src/wasm/host/http_call.rs, src/wasm/host/grpc.rs,
\* src/wasm/capabilities.rs, src/wasm/context.rs)
\* ========================================================================
PROXY_RESULT_OK == 0
PROXY_RESULT_NOT_FOUND == 1
PROXY_RESULT_BAD_ARGUMENT == 2
PROXY_RESULT_INVALID_MEMORY_ACCESS == 6
PROXY_RESULT_INTERNAL_FAILURE == 10
PROXY_RESULT_UNIMPLEMENTED == 12
PROXY_RESULT_NOT_ALLOWED == 13
\* Return slot of a call that produces no status code.
NoStatus == 99

\* Highest token / call id / stream id a context hands out in the model.
MaxTokens == 2

\* Upstream names a module passes.
Upstreams == {"webdis", "other"}

\* Text is a sequence of characters.
Star == <<"*">>
DotStar == <<".", "*">>
\* Patterns an operator puts into allowed_properties.
PropertyPatterns == { Star, <<"a", ".", "*">>, <<"a", ".", "b">>, <<"c">> }
\* Property paths a module asks for.
PropertyPaths ==
    { <<"a">>, <<"a", ".", "b">>, <<"a", ".", "b", ".", "c">>, <<"a", "b">>,
      <<"a", "b", ".", "c">>, <<"c">>, <<"b">> }

\* ModuleCapabilities: the fields the external-call and property checks read.
\* Modules that make external calls:
CallCapabilitySets ==
    [ allow_http_calls : BOOLEAN,
      allowed_upstreams : SUBSET Upstreams,
      max_http_calls : {1, 2},
      allowed_properties : {{}} ]
\* Modules that read properties (ModuleCapabilities::default otherwise):
PropertyCapabilitySets ==
    [ allow_http_calls : {FALSE},
      allowed_upstreams : {{}},
      max_http_calls : {10},
      allowed_properties : SUBSET PropertyPatterns ]

\* HttpContext::new: the call tables of a fresh context
NewContext(caps) ==
    [ capabilities |-> caps,
      pending_http_calls |-> {},        \* {[token, upstream]}
      taken_http_calls |-> {},          \* tokens the engine took and has not answered
      next_http_call_token |-> 1,
      pending_grpc_calls |-> {},        \* {call_id}
      next_grpc_call_id |-> 1,
      cancelled_grpc_calls |-> {},
      pending_grpc_streams |-> {},      \* {[stream_id, upstream]}
      next_grpc_stream_id |-> 1 ]

NoCaps ==
    [ allow_http_calls |-> FALSE, allowed_upstreams |-> {}, max_http_calls |-> 1,
      allowed_properties |-> {} ]
NoContext == NewContext(NoCaps)
NoCall == [fn |-> "none", upstream |-> "", path |-> <<>>, ret |-> NoStatus,
           recorded |-> FALSE, checked |-> FALSE]

\* ModuleCapabilities::is_property_allowed
is_property_allowed(caps, path) ==
    IF caps.allowed_properties = {} THEN FALSE
    ELSE \E pattern \in caps.allowed_properties :
            \/ pattern = Star
            \/ /\ EndsWith(pattern, DotStar)
               /\ StartsWith(path, Take(pattern, Len(pattern) - 2))
            \/ pattern = path

\* ModuleCapabilities::is_upstream_allowed
is_upstream_allowed(caps, upstream) ==
    IF ~caps.allow_http_calls THEN FALSE
    ELSE IF caps.allowed_upstreams = {} THEN TRUE
    ELSE upstream \in caps.allowed_upstreams

\* Arguments of proxy_http_call: the upstream name, whether its memory range
\* is readable UTF-8 (upstream_ok), whether the headers, body and trailers
\* ranges are all readable (payload_ok) and whether the token can be written.
HttpCallArgs ==
    [ upstream : Upstreams, upstream_ok : BOOLEAN, payload_ok : BOOLEAN,
      return_token_ok : BOOLEAN ]

Returned(code, ctx) == [ret |-> code, ctx |-> ctx]

\* proxy_http_call after the allow_http_calls check (http_call.rs:98-219)
HttpCallAfterCapability(ctx, a) ==
    IF Cardinality(ctx.pending_http_calls) >= ctx.capabilities.max_http_calls
    THEN Returned(PROXY_RESULT_INTERNAL_FAILURE, ctx)
    ELSE IF ~a.upstream_ok THEN Returned(PROXY_RESULT_INVALID_MEMORY_ACCESS, ctx)
    ELSE IF ~is_upstream_allowed(ctx.capabilities, a.upstream)
    THEN Returned(PROXY_RESULT_BAD_ARGUMENT, ctx)
    ELSE IF ~a.payload_ok
    THEN Returned(PROXY_RESULT_INVALID_MEMORY_ACCESS, ctx)
    ELSE LET token == ctx.next_http_call_token
             stored == [ctx EXCEPT
                          !.next_http_call_token = token + 1,
                          !.pending_http_calls =
                              {c \in @ : c.token # token}
                                  \cup {[token |-> token, upstream |-> a.upstream]}]
         IN  IF ~a.return_token_ok
             THEN Returned(PROXY_RESULT_INVALID_MEMORY_ACCESS, stored)
             ELSE Returned(PROXY_RESULT_OK, stored)

\* proxy_http_call (http_call.rs:72-221)
proxy_http_call_unchecked(ctx, a) == HttpCallAfterCapability(ctx, a)
proxy_http_call(ctx, a) ==
    IF ~ctx.capabilities.allow_http_calls
    THEN Returned(PROXY_RESULT_NOT_ALLOWED, ctx)
    ELSE HttpCallAfterCapability(ctx, a)

\* Arguments of proxy_grpc_call / proxy_grpc_stream: the upstream name,
\* whether the upstream, service, method and message (or metadata) ranges are
\* all readable (args_ok), and return_ptr: "null" (pointer <= 0, nothing is
\* written), "valid" or "invalid".
GrpcCallArgs ==
    [ upstream : Upstreams, args_ok : BOOLEAN,
      return_ptr : {"null", "valid", "invalid"} ]

\* proxy_grpc_call_impl (grpc.rs:181-268)
proxy_grpc_call_impl(ctx, a) ==
    IF ~a.args_ok
    THEN Returned(PROXY_RESULT_INVALID_MEMORY_ACCESS, ctx)
    ELSE LET call_id == ctx.next_grpc_call_id
             stored == [ctx EXCEPT
                          !.next_grpc_call_id = call_id + 1,
                          !.pending_grpc_calls = @ \cup {call_id}]
         IN  IF a.return_ptr = "invalid"
             THEN Returned(PROXY_RESULT_INVALID_MEMORY_ACCESS, stored)
             ELSE Returned(PROXY_RESULT_OK, stored)

\* proxy_grpc_stream_impl (grpc.rs:287-366)
proxy_grpc_stream_impl(ctx, a) ==
    IF ~a.args_ok
    THEN Returned(PROXY_RESULT_INVALID_MEMORY_ACCESS, ctx)
    ELSE LET stream_id == ctx.next_grpc_stream_id
             stored == [ctx EXCEPT
                          !.next_grpc_stream_id = stream_id + 1,
                          !.pending_grpc_streams =
                              {g \in @ : g.stream_id # stream_id}
                                  \cup {[stream_id |-> stream_id, upstream |-> a.upstream]}]
         IN  IF a.return_ptr = "invalid"
             THEN Returned(PROXY_RESULT_INVALID_MEMORY_ACCESS, stored)
             ELSE Returned(PROXY_RESULT_OK, stored)

\* HttpContext::cancel_grpc_call via proxy_grpc_cancel_impl (grpc.rs:271-284)
proxy_grpc_cancel_impl(ctx, call_id) ==
    IF call_id \in ctx.pending_grpc_calls
    THEN Returned(PROXY_RESULT_OK,
                  [ctx EXCEPT !.pending_grpc_calls = @ \ {call_id},
                              !.cancelled_grpc_calls = @ \cup {call_id}])
    ELSE Returned(PROXY_RESULT_NOT_FOUND, ctx)

\* ========================================================================
\* HTTP/3 server: snapshots, handlers and the proxy branch
\* (src/http3_server.rs)
\* ========================================================================
\* Number of configuration reloads the model performs.
MaxSwaps == 2
\* Number of QUIC connections alive at once.
MaxConns == 2
\* Number of requests begun over all connections.
MaxRequests == 3

Conns == 1..MaxConns
Servers == {"s1", "s2"}
NoServer == "none"

\* get_routes: one CURRENT_CONFIG.load(), both tables cloned from that snapshot
\* (http3_server.rs:741-744).  A snapshot is named by its version.
get_routes_startup_paths(config) == [host_routes |-> config, path_routes |-> 0]
get_routes(config) == [host_routes |-> config, path_routes |-> config]

\* Http3Handler::new (http3_server.rs:110-125), with the request being handled:
\*   pc            where handle_request stands ("idle": no request)
\*   start_config  CURRENT_CONFIG when the request began
\*   start_routes  the handler's tables when the request began
\*   used_host, used_path  the tables find_backend was given
Http3Handler(tables) ==
    [ open |-> TRUE,
      host_routes |-> tables.host_routes,
      path_routes |-> tables.path_routes,
      pc |-> "idle",
      start_config |-> 0,
      start_routes |-> [host_routes |-> 0, path_routes |-> 0],
      routed |-> FALSE,
      used_host |-> 0,
      used_path |-> 0,
      server |-> NoServer,
      status |-> 0 ]
Closed == [Http3Handler(get_routes(0)) EXCEPT !.open = FALSE]
NoConnections == [c \in Conns |-> Closed]
NoCalls == [s \in Servers |-> 0]

\* Outcomes of the quiche h3 send calls inside send_response.
H3Outcomes == {"sent", "partial", "StreamBlocked", "error", "no_h3"}

\* Http3Handler::send_response: the io::Result it returns
\* (http3_server.rs:339-394: every path ends in Ok(())).
send_response_propagating(outcome) == IF outcome = "error" THEN "Err" ELSE "Ok"
send_response(outcome) == "Ok"

\* Http3Handler::send_error_response (http3_server.rs:397-402)
send_error_response(outcome) == send_response(outcome)

\* Http3Handler::proxy_to_backend (http3_server.rs:510-526):
\* self.send_error_response(..)?; Ok((502, 47))
proxy_to_backend(outcome) == send_error_response(outcome)

\* ========================================================================
\* Optimized routing (src/routing/mod.rs)
\* ========================================================================
\* Number of routes a configuration declares.
MaxRoutes == 2

\* Option<T>: None is the empty sequence, Some(x) the one-element sequence.
None == <<>>
Some(x) == <<x>>

\* Vec::contains
Contains(v, x) == \E i \in 1..Len(v) : v[i] = x

\* str::to_lowercase on the letters the model uses
to_lowercase(s) ==
    [i \in 1..Len(s) |-> CASE s[i] = "A" -> "a" [] s[i] = "B" -> "b" [] OTHER -> s[i]]

\* the host without its port, in the letter case it arrived in
host_only_cased(host) ==
    LET colons == {i \in 1..Len(host) : host[i] = ":"}
    IN  IF colons = {} THEN host
        ELSE Take(host, (CHOOSE i \in colons : \A j \in colons : i <= j) - 1)
\* host_lower.split(':').next(): the host without its port (mod.rs:96-98)
host_only(host) ==
    LET host_lower == to_lowercase(host)
        colons == {i \in 1..Len(host_lower) : host_lower[i] = ":"}
    IN  IF colons = {} THEN host_lower
        ELSE Take(host_lower, (CHOOSE i \in colons : \A j \in colons : i <= j) - 1)

\* A keyed list of route indices: HashMap<String, Vec<usize>> and
\* Vec<(String, Vec<usize>)>.  FindEntry is the position of the key, or 0.
FindEntry(entries, key) ==
    LET hits == {i \in 1..Len(entries) : entries[i].key = key}
    IN  IF hits = {} THEN 0 ELSE CHOOSE i \in hits : \A j \in hits : i <= j
PushAt(entries, i, route_idx) ==
    [entries EXCEPT ![i] = [@ EXCEPT !.value = Append(@, route_idx)]]
\* find(|(s, _)| s == find_key), push on a hit, else push a new entry
PushOrInsert(entries, find_key, store_key, route_idx) ==
    LET i == FindEntry(entries, find_key)
    IN  IF i > 0 THEN PushAt(entries, i, route_idx)
        ELSE Append(entries, [key |-> store_key, value |-> <<route_idx>>])

\* ---- HostRouter (mod.rs:37-148) ----
\* The marker format!("__prefix__:{}", ..) puts in front of an `api.*` pattern.
PrefixTag == "__prefix__:"
HostRouter_new == [exact |-> <<>>, wildcard |-> <<>>, any_host |-> <<>>]

\* HostRouter::add_route (mod.rs:58-90)
HostRouter_add_route(hr, route_idx, host_condition) ==
    IF host_condition = None
    THEN [hr EXCEPT !.any_host = Append(@, route_idx)]
    ELSE LET pattern == host_condition[1] IN
         IF StartsWith(pattern, <<"*", ".">>)
         THEN LET suffix == Drop(pattern, 2)
              IN  [hr EXCEPT !.wildcard =
                      PushOrInsert(@, suffix, to_lowercase(suffix), route_idx)]
         ELSE IF EndsWith(pattern, <<".", "*">>)
         THEN LET prefix == Take(pattern, Len(pattern) - 2)
                  key == <<PrefixTag>> \o to_lowercase(prefix)
              IN  [hr EXCEPT !.wildcard = PushOrInsert(@, key, key, route_idx)]
         ELSE [hr EXCEPT !.exact =
                  PushOrInsert(@, to_lowercase(pattern), to_lowercase(pattern), route_idx)]

\* The test of one wildcard entry in HostRouter::get_candidates (mod.rs:108-130)
wildcard_matches(pattern, h) ==
    IF Len(pattern) > 0 /\ pattern[1] = PrefixTag
    THEN LET prefix == Drop(pattern, 1)
         IN  /\ StartsWith(h, prefix)
             /\ Len(h) > Len(prefix)
             /\ h[Len(prefix) + 1] = "."
    ELSE /\ EndsWith(h, pattern)
         /\ LET prefix_len == Len(h) - Len(pattern)
            IN  /\ prefix_len > 0
                /\ h[prefix_len] = "."
                /\ ~ \E i \in 1..(prefix_len - 1) : h[i] = "."

RECURSIVE WildcardCandidates(_, _)
WildcardCandidates(wildcard, h) ==
    IF wildcard = <<>> THEN <<>>
    ELSE (IF wildcard_matches(Head(wildcard).key, h) THEN Head(wildcard).value ELSE <<>>)
         \o WildcardCandidates(Tail(wildcard), h)

\* HostRouter::get_candidates (mod.rs:95-137)
HostRouter_get_candidates(hr, host) ==
    LET h == host_only(host)
        e == FindEntry(hr.exact, h)
    IN  (IF e > 0 THEN hr.exact[e].value ELSE <<>>)
        \o WildcardCandidates(hr.wildcard, h)
        \o hr.any_host

\* ---- PathRouter (mod.rs:164-273) ----
\* The catch-all segment of a matchit route, one symbol of the route string.
CatchAll == "{*rest}"
PathRouter_new == [router |-> <<>>, any_path |-> <<>>, patterns |-> <<>>]

\* PathRouter::convert_pattern (mod.rs:217-223): /api/* -> /api/{*rest}
convert_pattern(pattern) ==
    IF EndsWith(pattern, <<"/", "*">>)
    THEN Take(pattern, Len(pattern) - 2) \o <<"/", CatchAll>>
    ELSE pattern

\* matchit::Router::at / at_mut: the node whose route matches the path, or 0.
\* A static route matches the equal path; a route ending in the catch-all
\* matches every path that continues its prefix by at least one character;
\* a static match wins over a catch-all, a longer prefix over a shorter
\* (a catch-all route that matches a path is never longer than the path).
route_matches(route, path) ==
    IF Len(route) > 0 /\ route[Len(route)] = CatchAll
    THEN StartsWith(path, Take(route, Len(route) - 1)) /\ Len(path) >= Len(route)
    ELSE route = path
route_rank(route) ==
    IF Len(route) > 0 /\ route[Len(route)] = CatchAll THEN Len(route) ELSE Len(route) + 1
matchit_at(tree, path) ==
    LET hits == {i \in 1..Len(tree) : route_matches(tree[i].key, path)}
    IN  IF hits = {} THEN 0
        ELSE CHOOSE i \in hits :
                \A j \in hits : route_rank(tree[i].key) >= route_rank(tree[j].key)

\* PathRouter::add_route (mod.rs:184-213).  inserted: whether
\* matchit::Router::insert accepts the new route.
PathRouter_add_route(pr, route_idx, path_condition, inserted) ==
    IF path_condition = None
    THEN [pr EXCEPT !.any_path = Append(@, route_idx)]
    ELSE LET pattern == path_condition[1]
             matchit_pattern == convert_pattern(pattern)
             matched == matchit_at(pr.router, matchit_pattern)
         IN  [pr EXCEPT
                !.patterns = Append(@, [pattern |-> pattern, idx |-> route_idx]),
                !.router =
                    IF matched > 0 THEN PushAt(@, matched, route_idx)
                    ELSE IF inserted
                         THEN Append(@, [key |-> matchit_pattern, value |-> <<route_idx>>])
                         ELSE @]

\* PathRouter::matches_pattern (mod.rs:248-267)
matches_pattern(pattern, path) ==
    IF pattern = path THEN TRUE
    ELSE IF EndsWith(pattern, <<"/", "*">>)
    THEN LET prefix == Take(pattern, Len(pattern) - 2)
         IN  /\ StartsWith(path, prefix)
             /\ (Len(path) = Len(prefix) \/ path[Len(prefix) + 1] = "/")
    ELSE IF StartsWith(path, pattern)
    THEN LET remaining == Drop(path, Len(pattern))
         IN  remaining = <<>> \/ remaining[1] = "/"
    ELSE FALSE

RECURSIVE FallbackCandidates(_, _, _)
FallbackCandidates(patterns, path, candidates) ==
    IF patterns = <<>> THEN candidates
    ELSE LET p == Head(patterns)
         IN  FallbackCandidates(Tail(patterns), path,
                IF ~Contains(candidates, p.idx) /\ matches_pattern(p.pattern, path)
                THEN Append(candidates, p.idx) ELSE candidates)

\* PathRouter::get_candidates (mod.rs:226-245)
PathRouter_get_candidates(pr, path) ==
    LET matched == matchit_at(pr.router, path)
        radix == IF matched > 0 THEN pr.router[matched].value ELSE <<>>
    IN  FallbackCandidates(pr.patterns, path, radix) \o pr.any_path

\* ---- CidrMatcher (mod.rs:289-437), IPv4 ----
\* An address is its u32 value.  A source_ip entry is parsed to
\* [network, prefix_len]; prefix_len = NoPrefix stands for an entry without
\* '/', a single address.
NoPrefix == -1
\* u32::from_be_bytes(v4.octets()) (mod.rs:335, 389)
from_be_bytes(a, b, c, d) == ((a * 256 + b) * 256 + c) * 256 + d
CidrMatcher_new == [v4_ranges |-> <<>>, exact_ips |-> <<>>, any_ip |-> <<>>]

\* CidrMatcher::add_cidr (mod.rs:326-370)
add_cidr(cm, route_idx, cidr) ==
    IF cidr.prefix_len # NoPrefix
    THEN LET hits == {i \in 1..Len(cm.v4_ranges) :
                         /\ cm.v4_ranges[i].network = cidr.network
                         /\ cm.v4_ranges[i].prefix_len = cidr.prefix_len}
         IN  IF hits # {}
             THEN LET i == CHOOSE i \in hits : \A j \in hits : i <= j
                  IN  IF Contains(cm.v4_ranges[i].value, route_idx) THEN cm
                      ELSE [cm EXCEPT !.v4_ranges = PushAt(@, i, route_idx)]
             ELSE [cm EXCEPT !.v4_ranges =
                      Append(@, [network |-> cidr.network, prefix_len |-> cidr.prefix_len,
                                 value |-> <<route_idx>>])]
    ELSE [cm EXCEPT !.exact_ips =
             PushOrInsert(@, cidr.network, cidr.network, route_idx)]

RECURSIVE AddCidrs(_, _, _)
AddCidrs(cm, route_idx, ranges) ==
    IF ranges = <<>> THEN cm
    ELSE AddCidrs(add_cidr(cm, route_idx, Head(ranges)), route_idx, Tail(ranges))

\* CidrMatcher::add_route (mod.rs:312-323)
CidrMatcher_add_route(cm, route_idx, ip_ranges) ==
    IF ip_ranges = None
    THEN [cm EXCEPT !.any_ip = Append(@, route_idx)]
    ELSE AddCidrs(cm, route_idx, ip_ranges[1])

\* sort_by(|a, b| b.1.cmp(&a.1)): stable, longest prefix first
RECURSIVE InsertByPrefix(_, _)
InsertByPrefix(sorted, r) ==
    IF sorted = <<>> THEN <<r>>
    ELSE IF Head(sorted).prefix_len >= r.prefix_len
         THEN <<Head(sorted)>> \o InsertByPrefix(Tail(sorted), r)
         ELSE <<r>> \o sorted
RECURSIVE SortByPrefix(_, _)
SortByPrefix(ranges, sorted) ==
    IF ranges = <<>> THEN sorted
    ELSE SortByPrefix(Tail(ranges), InsertByPrefix(sorted, Head(ranges)))

\* CidrMatcher::optimize (mod.rs:373-377)
optimize(cm) == [cm EXCEPT !.v4_ranges = SortByPrefix(@, <<>>)]

\* a range that matches its network address only
masked_equal_unmasked(ip, network, prefix_len) == ip = network
\* (ip_u32 & mask) == (*network & mask) with
\* mask = if prefix_len == 0 { 0 } else { !((1u32 << (32 - prefix_len)) - 1) }
\* (mod.rs:391-396): equal after dropping the low 32 - prefix_len bits.
masked_equal(ip, network, prefix_len) ==
    IF prefix_len = 0 THEN TRUE
    ELSE ip \div (2 ^ (32 - prefix_len)) = network \div (2 ^ (32 - prefix_len))

RECURSIVE PushMissing(_, _)
PushMissing(candidates, indices) ==
    IF indices = <<>> THEN candidates
    ELSE PushMissing(IF Contains(candidates, Head(indices)) THEN candidates
                     ELSE Append(candidates, Head(indices)),
                     Tail(indices))
RECURSIVE RangeCandidates(_, _, _)
RangeCandidates(ranges, ip, candidates) ==
    IF ranges = <<>> THEN candidates
    ELSE RangeCandidates(Tail(ranges), ip,
            IF masked_equal(ip, Head(ranges).network, Head(ranges).prefix_len)
            THEN PushMissing(candidates, Head(ranges).value)
            ELSE candidates)

\* CidrMatcher::get_candidates (mod.rs:380-431)
CidrMatcher_get_candidates(cm, ip) ==
    LET e == FindEntry(cm.exact_ips, ip)
        exact == IF e > 0 THEN cm.exact_ips[e].value ELSE <<>>
    IN  RangeCandidates(cm.v4_ranges, ip, exact) \o cm.any_ip

\* CidrMatcher::has_conditions (mod.rs:434-436)
has_conditions(cm) == cm.v4_ranges # <<>> \/ cm.exact_ips # <<>>

\* ---- OptimizedRouter (mod.rs:547-638) ----
OptimizedRouter_new ==
    [ host_router |-> HostRouter_new,
      path_router |-> PathRouter_new,
      cidr_matcher |-> CidrMatcher_new,
      route_count |-> 0 ]

\* OptimizedRouter::add_route (mod.rs:584-595)
OptimizedRouter_add_route(r, route_idx, host, path, source_ip, inserted) ==
    [ host_router |-> HostRouter_add_route(r.host_router, route_idx, host),
      path_router |-> PathRouter_add_route(r.path_router, route_idx, path, inserted),
      cidr_matcher |-> CidrMatcher_add_route(r.cidr_matcher, route_idx, source_ip),
      route_count |-> IF r.route_count >= route_idx + 1 THEN r.route_count
                      ELSE route_idx + 1 ]

\* OptimizedRouter::finalize (mod.rs:598-600)
finalize(r) == [r EXCEPT !.cidr_matcher = optimize(@)]

\* sort_unstable() then dedup(): the distinct elements in ascending order
RECURSIVE Ascending(_)
Ascending(S) ==
    IF S = {} THEN <<>>
    ELSE LET m == CHOOSE x \in S : \A y \in S : x <= y
         IN  <<m>> \o Ascending(S \ {m})
SortDedup(v) == Ascending({v[i] : i \in 1..Len(v)})

\* OptimizedRouter::get_candidates (mod.rs:606-638)
OptimizedRouter_get_candidates(r, host, path, source_ip) ==
    LET host_candidates == HostRouter_get_candidates(r.host_router, host)
        path_candidates == PathRouter_get_candidates(r.path_router, path)
        ip_candidates ==
            IF has_conditions(r.cidr_matcher)
            THEN CidrMatcher_get_candidates(r.cidr_matcher, source_ip)
            ELSE [i \in 1..r.route_count |-> i - 1]
        final_candidates ==
            SelectSeq(host_candidates,
                      LAMBDA idx : Contains(path_candidates, idx) /\ Contains(ip_candidates, idx))
    IN  SortDedup(final_candidates)

\* ---- configurations and requests the model draws from ----
HostConditions ==
    {None, Some(<<"a", ".", "b">>), Some(<<"*", ".", "B">>), Some(<<"a", ".", "*">>)}
PathConditions ==
    {None, Some(<<"/", "a", "/", "*">>), Some(<<"/", "a", "/", "b">>), Some(<<"/", "a">>)}
\* 10.0.0.0/8, and the list [10.0.0.1, 10.0.0.1/32]
SourceIpConditions ==
    {None,
     Some(<<[network |-> from_be_bytes(10, 0, 0, 0), prefix_len |-> 8]>>),
     Some(<<[network |-> from_be_bytes(10, 0, 0, 1), prefix_len |-> NoPrefix],
            [network |-> from_be_bytes(10, 0, 0, 1), prefix_len |-> 32]>>)}
RequestHosts ==
    {<<"a", ".", "b">>, <<"A", ".", "b", ":", "8">>, <<"c", ".", "b">>, <<"a", ".", "c">>,
     <<"c", ".", "a", ".", "b">>}
RequestPaths ==
    {<<"/", "a">>, <<"/", "a", "/", "b">>, <<"/", "a", "/", "c">>, <<"/", "a", "b">>}
RequestIps == {from_be_bytes(10, 0, 0, 1), from_be_bytes(10, 0, 0, 2), from_be_bytes(11, 0, 0, 1)}
NoLookup == [done |-> FALSE, host |-> <<>>, path |-> <<>>, source_ip |-> 0, candidates |-> <<>>]

\* ---- one index at a time: routes that constrain one dimension ----
\* host patterns, in both letter cases
IndexHostPatterns ==
    { <<"*", ".", "b">>, <<"*", ".", "B">>, <<"*", ".", "a", ".", "b">>,
      <<"a", ".", "*">>, <<"a", ".", "b">>, <<"A", ".", "B">> }
\* lowercase host names H: a.b, b, .b, b.a.b, a.a.b, c.b, a.c
IndexHostNames ==
    { <<"a", ".", "b">>, <<"b">>, <<".", "b">>, <<"b", ".", "a", ".", "b">>,
      <<"a", ".", "a", ".", "b">>, <<"c", ".", "b">>, <<"a", ".", "c">> }
IndexPorts == { <<>>, <<":", "8">> }
\* the uppercase spelling of a name
to_uppercase(s) ==
    [i \in 1..Len(s) |-> CASE s[i] = "a" -> "A" [] s[i] = "b" -> "B" [] OTHER -> s[i]]
\* the Host header value: H or H:port, lowercase or uppercase
HostValue(name, upper, port) == (IF upper THEN to_uppercase(name) ELSE name) \o port
IndexHosts ==
    { HostValue(name, upper, port) :
        name \in IndexHostNames, upper \in BOOLEAN, port \in IndexPorts }
\* path patterns /a/*, /*, /a/b, /a and request paths /a, /a/, /a/b/c, /ab, /a/b, /b
IndexPathPatterns ==
    { <<"/", "a", "/", "*">>, <<"/", "*">>, <<"/", "a", "/", "b">>, <<"/", "a">> }
IndexPaths ==
    { <<"/", "a">>, <<"/", "a", "/">>, <<"/", "a", "/", "b", "/", "c">>,
      <<"/", "a", "b">>, <<"/", "a", "/", "b">>, <<"/", "b">> }
\* source ranges 10.0.0.0/8, 10.1.2.3/8, 10.128.0.0/9, 10.0.0.1/32, 10.0.0.1,
\* 0.0.0.0/0, 10.255.255.254/31
IndexRanges ==
    { [network |-> from_be_bytes(10, 0, 0, 0), prefix_len |-> 8],
      [network |-> from_be_bytes(10, 1, 2, 3), prefix_len |-> 8],
      [network |-> from_be_bytes(10, 128, 0, 0), prefix_len |-> 9],
      [network |-> from_be_bytes(10, 0, 0, 1), prefix_len |-> 32],
      [network |-> from_be_bytes(10, 0, 0, 1), prefix_len |-> NoPrefix],
      [network |-> from_be_bytes(0, 0, 0, 0), prefix_len |-> 0],
      [network |-> from_be_bytes(10, 255, 255, 254), prefix_len |-> 31] }
\* client addresses 10.255.255.255, 11.0.0.0, 10.0.0.1, 10.0.0.2, 10.127.255.255
IndexIps ==
    { from_be_bytes(10, 255, 255, 255), from_be_bytes(11, 0, 0, 0),
      from_be_bytes(10, 0, 0, 1), from_be_bytes(10, 0, 0, 2),
      from_be_bytes(10, 127, 255, 255) }
\* routes with one condition
IndexRoutes ==
    { [host |-> Some(p), path |-> None, source_ip |-> None] : p \in IndexHostPatterns }
    \cup { [host |-> None, path |-> Some(p), source_ip |-> None] : p \in IndexPathPatterns }
    \cup { [host |-> None, path |-> None, source_ip |-> Some(<<r>>)] : r \in IndexRanges }

\* ========================================================================
\* HTTP/2 client, prior knowledge (src/http2/client.rs)
\* ========================================================================
\* defaults::CONNECTION_WINDOW_SIZE and defaults::MAX_FRAME_SIZE, scaled down
\* (65535 and 16384 on the wire).
CONNECTION_WINDOW_SIZE == 8
DEFAULT_MAX_FRAME_SIZE == 4
\* Http2Settings::default().initial_window_size
DEFAULT_INITIAL_WINDOW_SIZE == CONNECTION_WINDOW_SIZE
\* Requests sent on one connection, and frames read from the peer.
MaxH2Requests == 2
MaxH2Frames == 4

\* A u32 kept at its width as two 16-bit halves.
U32(hi, lo) == [hi |-> hi, lo |-> lo]
\* self.next_stream_id += 2
U32Add2(x) ==
    IF x.lo + 2 < 65536 THEN U32(x.hi, x.lo + 2)
    ELSE U32((x.hi + 1) % 65536, x.lo + 2 - 65536)
\* The value is above 2^31 - 1.
AboveMaxStreamId(x) == x.hi >= 32768
NoStream == U32(0, 0)
\* A stream the peer opened itself (even id).
PushedStream == U32(0, 2)
\* next_stream_id of a new connection, and of one that has carried
\* 2^30 - 1 requests (2^31 - 1).
FirstStreamIds == {U32(0, 1), U32(32767, 65535)}

\* Settings the caller constructs the client with (initial_window_size).
LocalInitialWindowSizes == {CONNECTION_WINDOW_SIZE, 2}

\* H2cClient::new (client.rs:54-76)
H2cClient_new(first_stream_id, local_initial_window_size) ==
    [ pc |-> "new",
      local_initial_window_size |-> local_initial_window_size,
      remote_initial_window_size |-> DEFAULT_INITIAL_WINDOW_SIZE,
      remote_max_frame_size |-> DEFAULT_MAX_FRAME_SIZE,
      encoder_max_frame_size |-> DEFAULT_MAX_FRAME_SIZE,
      encoder_table_size |-> 0,
      conn_send_window |-> CONNECTION_WINDOW_SIZE,
      conn_recv_window |-> CONNECTION_WINDOW_SIZE,
      next_stream_id |-> first_stream_id,
      settings_ack_pending |-> FALSE,
      \* the request in progress
      stream_id |-> NoStream,
      body_len |-> 0,
      offset |-> 0,
      result |-> "none" ]

\* What has gone over the connection, as the peer sees it.
NoWire ==
    [ frames_read |-> 0,
      requests |-> 0,
      streams_started |-> <<>>,       \* stream ids of the HEADERS written
      completed |-> {},                \* requests whose body was written in full
      settings_received |-> 0,         \* SETTINGS without ack read
      settings_applied |-> TRUE,       \* the latest of them was applied
      acks_sent |-> 0,                 \* SETTINGS acks written
      goaway_received |-> FALSE,
      started_after_goaway |-> FALSE,  \* HEADERS written after a GOAWAY
      conn_sent |-> 0,                 \* DATA bytes written on the connection
      stream_sent |-> 0,               \* DATA bytes written on the current stream
      conn_granted |-> CONNECTION_WINDOW_SIZE,   \* initial window + WINDOW_UPDATE(0)
      stream_granted |-> 0,            \* peer's initial window + WINDOW_UPDATE(stream)
      peer_initial_window_size |-> DEFAULT_INITIAL_WINDOW_SIZE, \* peer's SETTINGS 0x4
      peer_conn_allow |-> CONNECTION_WINDOW_SIZE, \* what the peer may still send
      peer_stream_allow |-> 0,
      low_unanswered |-> FALSE,        \* a window fell below half, no WINDOW_UPDATE
      overran |-> FALSE ]              \* a DATA chunk was longer than a send window

\* Frames (http2::frame::Frame) the peer sends; "Closed" stands for the end of
\* the transport, on which read_frame returns ConnectionClosed.
H2Frame(type) ==
    [ type |-> type, ack |-> FALSE, sid |-> NoStream, len |-> 0, end_stream |-> FALSE,
      settings |-> <<>>, increment |-> 0 ]
PeerSettings == {<<>>, <<<<4, 2>>>>, <<<<5, 2>>, <<1, 1>>>>}
PeerFrames(stream_id) ==
    { [H2Frame("Settings") EXCEPT !.settings = s] : s \in PeerSettings }
    \cup { [H2Frame("Settings") EXCEPT !.ack = TRUE] }
    \cup { [H2Frame("WindowUpdate") EXCEPT !.sid = sid, !.increment = 2] :
              sid \in {NoStream, stream_id} }
    \cup { H2Frame("Ping"), H2Frame("GoAway"), H2Frame("Closed") }
    \cup { [H2Frame("RstStream") EXCEPT !.sid = stream_id] }
    \cup { [H2Frame("Headers") EXCEPT !.sid = sid, !.end_stream = e] :
              sid \in {stream_id, PushedStream}, e \in BOOLEAN }
    \cup { [H2Frame("Data") EXCEPT !.sid = sid, !.len = n, !.end_stream = e] :
              sid \in {stream_id, PushedStream}, n \in 1..3, e \in BOOLEAN }

\* The settings loop of receive_server_settings (client.rs:123-133)
RECURSIVE ApplyHandshakeSettings(_, _)
ApplyHandshakeSettings(c, settings) ==
    IF settings = <<>> THEN c
    ELSE LET id == Head(settings)[1]
             value == Head(settings)[2]
             next == CASE id = 1 -> [c EXCEPT !.encoder_table_size = value]
                       [] id = 4 -> [c EXCEPT !.remote_initial_window_size = value]
                       [] id = 5 -> [c EXCEPT !.encoder_max_frame_size = value,
                                              !.remote_max_frame_size = value]
                       [] OTHER -> c
         IN  ApplyHandshakeSettings(next, Tail(settings))

\* The settings loop of receive_response (client.rs:330-336)
RECURSIVE ApplyResponseSettings(_, _)
ApplyResponseSettings(c, settings) ==
    IF settings = <<>> THEN c
    ELSE LET id == Head(settings)[1]
             value == Head(settings)[2]
             next == CASE id = 4 -> [c EXCEPT !.remote_initial_window_size = value]
                       [] id = 5 -> [c EXCEPT !.remote_max_frame_size = value]
                       [] OTHER -> c
         IN  ApplyResponseSettings(next, Tail(settings))

\* The values a SETTINGS frame asks for are in force at the client.
SettingsInForce(c, settings) ==
    \A i \in 1..Len(settings) :
        CASE settings[i][1] = 1 -> c.encoder_table_size = settings[i][2]
          [] settings[i][1] = 4 -> c.remote_initial_window_size = settings[i][2]
          [] settings[i][1] = 5 -> /\ c.remote_max_frame_size = settings[i][2]
                                   /\ c.encoder_max_frame_size = settings[i][2]
          [] OTHER -> TRUE

\* The initial window size in force at the peer after it sent the frame.
RECURSIVE InitialWindowAfter(_, _)
InitialWindowAfter(current, settings) ==
    IF settings = <<>> THEN current
    ELSE InitialWindowAfter(IF Head(settings)[1] = 4 THEN Head(settings)[2] ELSE current,
                            Tail(settings))

\* What the peer books when it sends a frame.
PeerBooks(w, f, stream_id) ==
    [w EXCEPT
       !.peer_initial_window_size = InitialWindowAfter(@, f.settings),
       !.frames_read = @ + 1,
       !.settings_received = IF f.type = "Settings" /\ ~f.ack THEN @ + 1 ELSE @,
       !.goaway_received = @ \/ f.type = "GoAway",
       !.conn_granted = IF f.type = "WindowUpdate" /\ f.sid = NoStream
                        THEN @ + f.increment ELSE @,
       !.stream_granted = IF f.type = "WindowUpdate" /\ f.sid = stream_id /\ f.sid # NoStream
                          THEN @ + f.increment
                          ELSE IF stream_id # NoStream
                          THEN @ + InitialWindowAfter(w.peer_initial_window_size, f.settings)
                                 - w.peer_initial_window_size
                          ELSE @,
       !.peer_conn_allow = IF f.type = "Data" THEN @ - f.len ELSE @,
       !.peer_stream_allow = IF f.type = "Data" /\ f.sid = stream_id THEN @ - f.len ELSE @]

\* A DATA frame the peer's flow control lets it send.
PeerMaySend(w, f, stream_id) ==
    f.type = "Data" =>
        /\ f.len <= w.peer_conn_allow
        /\ f.sid = stream_id => f.len <= w.peer_stream_allow

NoClient == H2cClient_new(U32(0, 1), CONNECTION_WINDOW_SIZE)

\* ------------------------------------------------------------------------
\* Shared queues (src/wasm/host/shared_queue.rs) and queue subscriptions
\* (src/wasm/queue_notify.rs).  A message (Vec<u8>) is represented by its
\* length: the registry never looks at the bytes.  A HashMap is a function
\* whose absent keys map to None.
MAX_QUEUE_SIZE == 1000
MAX_MESSAGE_SIZE == 65536
PROXY_RESULT_EMPTY == 7
\* number of proxy_*_shared_queue host calls in one behaviour
MaxQueueCalls == 2
QueueNames == {"a"}
Modules == {"m1", "m2"}
\* queue_id arguments: the id register hands out to QueueNames, and one that
\* names no queue
QueueIdArgs == {1, 2}
\* data_size arguments (i32)
DataSizes == {-1, 1, MAX_MESSAGE_SIZE, MAX_MESSAGE_SIZE + 1}

\* SharedQueueRegistry::new (shared_queue.rs:36-42)
SharedQueueRegistry_new ==
    [ name_to_id |-> [n \in QueueNames |-> None],
      queues |-> [q \in QueueIdArgs |-> None],
      next_queue_id |-> 1 ]

\* SharedQueueRegistry::register (shared_queue.rs:45-55)
register(registry, name) ==
    IF registry.name_to_id[name] /= None
      THEN [registry |-> registry, id |-> registry.name_to_id[name][1]]
      ELSE LET id == registry.next_queue_id
           IN [registry |->
                 [ name_to_id |-> [registry.name_to_id EXCEPT ![name] = Some(id)],
                   queues |-> [registry.queues EXCEPT ![id] = Some(<<>>)],
                   next_queue_id |-> id + 1 ],
               id |-> id]

\* SharedQueueRegistry::resolve (shared_queue.rs:58-60)
resolve(registry, name) == registry.name_to_id[name]

\* enqueue without the two size tests of shared_queue.rs:65
enqueue_unbounded(registry, queue_id, data) ==
    IF registry.queues[queue_id] /= None
      THEN [registry |-> [registry EXCEPT !.queues[queue_id] =
                              Some(Append(registry.queues[queue_id][1], data))],
            success |-> TRUE]
      ELSE [registry |-> registry, success |-> FALSE]

\* SharedQueueRegistry::enqueue (shared_queue.rs:63-71)
enqueue(registry, queue_id, data) ==
    IF /\ registry.queues[queue_id] /= None
       /\ Len(registry.queues[queue_id][1]) < MAX_QUEUE_SIZE
       /\ data <= MAX_MESSAGE_SIZE
      THEN [registry |-> [registry EXCEPT !.queues[queue_id] =
                              Some(Append(registry.queues[queue_id][1], data))],
            success |-> TRUE]
      ELSE [registry |-> registry, success |-> FALSE]

\* SharedQueueRegistry::dequeue (shared_queue.rs:74-80)
dequeue(registry, queue_id) ==
    IF registry.queues[queue_id] /= None /\ registry.queues[queue_id][1] /= <<>>
      THEN [registry |-> [registry EXCEPT !.queues[queue_id] =
                              Some(Tail(registry.queues[queue_id][1]))],
            data |-> Some(Head(registry.queues[queue_id][1]))]
      ELSE [registry |-> registry, data |-> None]

\* the registry after register("a") and MAX_QUEUE_SIZE - 1 enqueues of an
\* empty message
NearlyFullRegistry ==
    LET r == register(SharedQueueRegistry_new, "a")
    IN [r.registry EXCEPT !.queues[r.id] = Some([i \in 1..(MAX_QUEUE_SIZE - 1) |-> 0])]

\* QueueSubscriptionRegistry::new (queue_notify.rs:27-32); an absent entry
\* and an empty set give the same get_queue_subscribers
NoSubscriptions == [q \in QueueIdArgs |-> {}]
\* get_queue_subscribers (queue_notify.rs:84-95)
get_queue_subscribers(subscriptions, queue_id) == subscriptions[queue_id]
\* no notify_queue_subscribers call in progress
NotNotifying == [queue_id |-> 0, subscribers |-> {}]
\* no host call made yet, no callback owed
NoQueueLog ==
    [ calls |-> 0, fn |-> "none", queue_id |-> 0, size |-> 0, rc |-> PROXY_RESULT_OK,
      before |-> None, owed |-> {} ]

\* ------------------------------------------------------------------------
\* Tick manager (src/wasm/tick_manager.rs) and the callbacks the tick loops,
\* the queue notifier and the request pipeline make into module contexts.
\* Instant and Duration are whole milliseconds.
MaxTickTime == 2
\* period_ms arguments of register_tick
TickPeriods == {0, 1, 2}
\* per-worker tick loops
TickWorkers == {"worker1", "worker2"}
CallbackThreads == TickWorkers \cup {"notify", "request"}

\* TickRegistry::new (tick_manager.rs:36-40)
TickRegistry_new == [m \in Modules |-> None]

\* register_tick (tick_manager.rs:47-73)
register_tick(configs, module_name, period_ms, now) ==
    IF period_ms = 0
      THEN [configs EXCEPT ![module_name] = None]
      ELSE [configs EXCEPT ![module_name] =
              Some([period_ms |-> period_ms, last_tick |-> now])]

\* get_due_ticks (tick_manager.rs:78-96): the due modules, and the registry
\* with their last_tick moved to now
get_due_ticks(configs, now) ==
    LET due == { m \in Modules :
                   /\ configs[m] /= None
                   /\ now - configs[m][1].last_tick >= configs[m][1].period_ms }
    IN [ due_modules |-> due,
         configs |-> [m \in Modules |->
                        IF m \in due
                          THEN Some([configs[m][1] EXCEPT !.last_tick = now])
                          ELSE configs[m]] ]

\* a thread that is in no callback and has none to make
Idle == [kind |-> "none", pending |-> {}, running |-> None]
NoCallbacks == [t \in CallbackThreads |-> Idle]
NoHolders == [m \in Modules |-> None]
NoTickLog == [set_zero |-> {}, ticked_after_zero |-> {}]

\* a context entered without taking its host-state mutex
context_unguarded(holders, module_name) == TRUE

\* the engine enters a hook body of a module context only with the context's
\* host-state mutex held
context_free(holders, module_name) == holders[module_name] = None

\* ------------------------------------------------------------------------
\* HTTP call executor (src/wasm/http_executor.rs).  Response bytes are a
\* sequence of tokens: "CRLF" is "\r\n", " " a space, "h:v" a header line,
\* the others words without space, colon or line break.
UpstreamResponses ==
    { <<>>,
      <<"HTTP/1.1", " ", "200", " ", "OK", "CRLF", "h:v", "CRLF", "CRLF", "body">>,
      <<"HTTP/1.1", " ", "200", "CRLF", "CRLF">>,
      <<"HTTP/1.1", " ", "abc", " ", "OK", "CRLF", "CRLF">>,
      <<"HTTP/1.1", " ", "70000", "CRLF", "CRLF">>,
      <<"HTTP/1.1", " ", " ", "200", "CRLF", "CRLF">>,
      <<"HTTP/1.1", "CRLF", "CRLF">>,
      <<"CRLF", "CRLF", "body">>,
      <<"HTTP/1.1", " ", "200", " ", "OK", "CRLF", "h:v">> }

\* str::parse::<u16> of one word
ParseU16(word) ==
    IF word = <<"200">> THEN Some(200) ELSE None

\* str::find("\r\n\r\n"): the index of the first boundary, 0 if there is none
FindBoundary(data) ==
    LET at == { i \in 1..(Len(data) - 1) : data[i] = "CRLF" /\ data[i + 1] = "CRLF" }
    IN IF at = {} THEN 0 ELSE CHOOSE i \in at : \A j \in at : i <= j

\* str::lines().next(): the text before the first line break; None if the text is empty
FirstLine(text) ==
    IF text = <<>> THEN None
    ELSE LET at == { i \in 1..Len(text) : text[i] = "CRLF" }
         IN IF at = {} THEN Some(text)
            ELSE Some(Take(text, (CHOOSE i \in at : \A j \in at : i <= j) - 1))

\* splitn(3, ' '): the text cut at its first two spaces
Splitn3(line) ==
    LET sp == { i \in 1..Len(line) : line[i] = " " }
    IN IF sp = {} THEN << line >>
       ELSE LET s1 == CHOOSE i \in sp : \A j \in sp : i <= j
                rest == sp \ {s1}
            IN IF rest = {} THEN << Take(line, s1 - 1), Drop(line, s1) >>
               ELSE LET s2 == CHOOSE i \in rest : \A j \in rest : i <= j
                    IN << Take(line, s1 - 1),
                          SubSeq(line, s1 + 1, s2 - 1),
                          Drop(line, s2) >>

ExecOk(response) == [tag |-> "Ok", response |-> response, error |-> ""]
ExecErr(error) ==
    [tag |-> "Err", error |-> error,
     response |-> [status_code |-> 0, headers |-> <<>>, body |-> <<>>]]

\* parse_http_response_from_bytes (http_executor.rs:202-251)
parse_http_response_from_bytes(data) ==
    IF data = <<>> THEN ExecErr("Empty response")
    ELSE LET header_end == FindBoundary(data)
         IN IF header_end = 0 THEN ExecErr("Invalid response: no header/body boundary")
            ELSE LET header_section == Take(data, header_end - 1)
                     status_line == FirstLine(header_section)
                 IN IF status_line = None THEN ExecErr("Invalid response: no status line")
                    ELSE LET status_parts == Splitn3(status_line[1])
                         IN IF Len(status_parts) < 2 THEN ExecErr("Invalid status line")
                            ELSE IF ParseU16(status_parts[2]) = None
                              THEN ExecErr("Invalid status code")
                            ELSE ExecOk(
                                   [ status_code |-> ParseU16(status_parts[2])[1],
                                     headers |-> SelectSeq(Drop(header_section, Len(status_line[1])),
                                                           LAMBDA w : w = "h:v"),
                                     body |-> Drop(data, header_end + 1) ])

\* execute_http_call_safe with the error handed on instead of answered
execute_http_call_unanswered(executed) == executed.response

\* execute_http_call_safe (http_executor.rs:257-286): the match on the
\* result of execute_http_call
execute_http_call_safe(executed) ==
    IF executed.tag = "Ok" THEN executed.response
    ELSE [ status_code |-> 504,
           headers |-> <<"x-wasm-error: http_call_failed">>,
           body |-> <<"HTTP call failed: ", executed.error>> ]

NoExecution ==
    [ pc |-> "idle", address_parses |-> TRUE, use_tls |-> FALSE, upstream |-> <<>>,
      response_data |-> <<>>, executed |-> ExecErr(""),
      response |-> [status_code |-> 0, headers |-> <<>>, body |-> <<>>] ]

\* ------------------------------------------------------------------------
\* HTTP/3 response sending (src/http3_server.rs): one request stream from
\* handle_request to the flushes of the later poll rounds.
\* poll rounds (process_events calls) after the request that are counted;
\* the poll loop itself goes on
MaxH3Polls == 2
\* status codes handle_request answers with
H3Statuses == {200, 400, 403, 404, 502}
NoH3Stream ==
    [ pc |-> "idle", status |-> 0, has_body |-> FALSE,
      blocked |-> FALSE,           \* quiche would answer StreamBlocked
      dead |-> FALSE,              \* the stream or connection has failed
      headers_written |-> FALSE,   \* status and headers are on the stream
      body_written |-> FALSE,
      partial_response |-> FALSE,  \* partial_responses holds the stream's body
      polls |-> 0 ]

\* Http3Handler::send_response, the header part (http3_server.rs:368-376):
\* the match on h3_conn.send_response
send_headers(s, outcome) ==
    IF outcome = "Ok" THEN [s EXCEPT !.headers_written = TRUE]
    ELSE IF outcome = "StreamBlocked" THEN s
    ELSE [s EXCEPT !.dead = TRUE]

\* Http3Handler::send_response, the body part (http3_server.rs:379-391):
\* the match on h3_conn.send_body
send_body(s, outcome) ==
    IF outcome = "Ok" THEN [s EXCEPT !.body_written = TRUE]
    ELSE IF outcome = "Done" THEN [s EXCEPT !.partial_response = TRUE]
    ELSE [s EXCEPT !.dead = TRUE]

\* ------------------------------------------------------------------------
\* Route cache (src/routing/mod.rs RouteCache) under configuration swaps.
\* number of configuration swaps
MaxCacheSwaps == 2
\* number of lookups each worker makes
MaxLookups == 2
\* capacity of the LRU (RouteCache::new)
CacheCapacity == 2
CacheWorkers == {"w1", "w2"}
\* request fingerprints (RouteCacheKey)
CacheKeys == {"k1", "k2", "k3"}
\* the first matching route of a key under a snapshot (lookup steps 2-4):
\* every swap moves the routes, the third key never matches
MatchAgainst(snap, key) ==
    IF key = "k3" THEN None
    ELSE IF key = "k1" THEN Some(snap)
    ELSE Some(snap + 1)
NoLookups ==
    [w \in CacheWorkers |->
       [ pc |-> "idle", handle |-> 0, key |-> "k1", count |-> 0,
         answer |-> None,        \* Some(route index option) once answered
         from_cache |-> FALSE,   \* the answer is a cache hit
         computed_against |-> 0, \* snapshot the answering entry was computed against
         answered_in |-> 0 ] ]   \* snapshot published when the hit was served

\* position of a key in the LRU, 0 when absent
CacheIndex(cache, key) ==
    IF \E i \in 1..Len(cache) : cache[i].key = key
      THEN CHOOSE i \in 1..Len(cache) : cache[i].key = key
      ELSE 0
CacheWithout(cache, key) == SelectSeq(cache, LAMBDA e : e.key /= key)
CacheTake(cache, n) == IF Len(cache) <= n THEN cache ELSE SubSeq(cache, 1, n)

\* RouteCache::get (routing/mod.rs:498-507): Some(entry) on a hit, which
\* becomes the most recently used entry
RouteCache_get(cache, key) ==
    LET i == CacheIndex(cache, key)
    IN IF i = 0 THEN [hit |-> None, cache |-> cache]
       ELSE [hit |-> Some(cache[i]), cache |-> <<cache[i]>> \o CacheWithout(cache, key)]

\* RouteCache::put (routing/mod.rs:510-514); the entry remembers the
\* snapshot its result was computed against
RouteCache_put(cache, key, route_idx, snap) ==
    CacheTake(<<[key |-> key, route_idx |-> route_idx, computed_against |-> snap]>>
                \o CacheWithout(cache, key), CacheCapacity)

\* RouteCache::clear (routing/mod.rs:525-529)
RouteCache_clear(cache) == <<>>

\* ------------------------------------------------------------------------
\* grpc-timeout header (src/grpc/headers.rs).  A Duration is its seconds
\* (u64) and its sub-second nanoseconds (u32, below 10^9); text is a
\* sequence of characters; an integer too wide for one machine word is the
\* pair it splits into at a power of ten.
TimeoutSecs == {0, 1, 59, 60, 61, 3600, 3601, 7200}
TimeoutNanos == {0, 1, 1000, 1000000, 500000000, 999999999}
Duration(secs, nanos) == [secs |-> secs, nanos |-> nanos]
NoTimeout ==
    [ pc |-> "idle", duration |-> Duration(0, 0), header |-> <<>>, parsed |-> None ]

DecimalDigits == <<"0", "1", "2", "3", "4", "5", "6", "7", "8", "9">>
\* the decimal text of a number (format!("{}", n))
RECURSIVE to_string(_)
to_string(n) ==
    IF n < 10 THEN <<DecimalDigits[n + 1]>>
    ELSE to_string(n \div 10) \o <<DecimalDigits[(n % 10) + 1]>>
\* the decimal text of n in exactly `width` digits
RECURSIVE ZeroPadded(_, _)
ZeroPadded(n, width) ==
    IF width = 0 THEN <<>>
    ELSE ZeroPadded(n \div 10, width - 1) \o <<DecimalDigits[(n % 10) + 1]>>
\* the decimal text of secs * 10^width + frac
ScaledText(secs, frac, width) ==
    IF secs > 0 THEN to_string(secs) \o ZeroPadded(frac, width) ELSE to_string(frac)

\* the value of a digit string, 0 for the empty string
RECURSIVE DecimalValue(_)
DecimalValue(digits) ==
    IF digits = <<>> THEN 0
    ELSE DecimalValue(Take(digits, Len(digits) - 1)) * 10
         + ((CHOOSE d \in 1..10 : DecimalDigits[d] = digits[Len(digits)]) - 1)
\* num / 10^width and num % 10^width of the number a digit string spells
DivPow10(digits, width) ==
    IF Len(digits) <= width THEN 0 ELSE DecimalValue(Take(digits, Len(digits) - width))
ModPow10(digits, width) ==
    IF Len(digits) <= width THEN DecimalValue(digits)
    ELSE DecimalValue(Drop(digits, Len(digits) - width))
\* str::parse::<u64> accepts digits only (the model has no sign and stays
\* below 20 digits)
IsU64Text(text) ==
    /\ text # <<>>
    /\ Len(text) < 20
    /\ \A i \in 1..Len(text) : \E d \in 1..10 : DecimalDigits[d] = text[i]

\* format_grpc_timeout (headers.rs:87-121)
format_grpc_timeout(duration) ==
    LET secs == duration.secs
        subsec_nanos == duration.nanos
        hours == secs \div 3600
        minutes == secs \div 60
    IN  IF secs = 0 /\ subsec_nanos = 0 THEN <<"0", "n">>
        ELSE IF hours > 0 /\ secs % 3600 = 0 THEN to_string(hours) \o <<"H">>
        ELSE IF minutes > 0 /\ secs % 60 = 0 THEN to_string(minutes) \o <<"M">>
        ELSE IF secs > 0 /\ subsec_nanos = 0 THEN to_string(secs) \o <<"S">>
        ELSE IF (secs > 0 \/ subsec_nanos >= 1000000) /\ subsec_nanos % 1000000 = 0
             THEN ScaledText(secs, subsec_nanos \div 1000000, 3) \o <<"m">>
        ELSE IF (secs > 0 \/ subsec_nanos >= 1000) /\ subsec_nanos % 1000 = 0
             THEN ScaledText(secs, subsec_nanos \div 1000, 6) \o <<"u">>
        ELSE ScaledText(secs, subsec_nanos, 9) \o <<"n">>

\* parse_grpc_timeout (headers.rs:64-82)
parse_grpc_timeout(value) ==
    IF value = <<>> THEN None
    ELSE LET num_str == Take(value, Len(value) - 1)
             unit == value[Len(value)]
         IN  IF ~IsU64Text(num_str) THEN None
             ELSE CASE unit = "H" -> Some(Duration(DecimalValue(num_str) * 3600, 0))
                    [] unit = "M" -> Some(Duration(DecimalValue(num_str) * 60, 0))
                    [] unit = "S" -> Some(Duration(DecimalValue(num_str), 0))
                    [] unit = "m" -> Some(Duration(DivPow10(num_str, 3),
                                                   ModPow10(num_str, 3) * 1000000))
                    [] unit = "u" -> Some(Duration(DivPow10(num_str, 6),
                                                   ModPow10(num_str, 6) * 1000))
                    [] unit = "n" -> Some(Duration(DivPow10(num_str, 9),
                                                   ModPow10(num_str, 9)))
                    [] OTHER -> None

\* ------------------------------------------------------------------------
\* grpc-message (src/grpc/status.rs).  A char is its code point, a String the
\* sequence of its chars.
\* longest status message
MaxMessageLen == 2
\* 'A', 'z', '7', '-', ' ', ':', '%', '+', line feed, U+00E9, U+0100, U+3042, U+1F600
MessageChars == {65, 122, 55, 45, 32, 58, 37, 43, 10, 233, 256, 12354, 128512}
StatusMessages == UNION { [1..n -> MessageChars] : n \in 0..MaxMessageLen }
NoMessage == [ pc |-> "idle", message |-> <<>>, encoded |-> <<>>, decoded |-> None ]

\* char::is_ascii_alphanumeric
is_ascii_alphanumeric(c) == c \in (48..57) \cup (65..90) \cup (97..122)
\* "0123456789ABCDEF" as chars
UpperHexDigits == <<48, 49, 50, 51, 52, 53, 54, 55, 56, 57, 65, 66, 67, 68, 69, 70>>
\* format!("{:X}", n)
RECURSIVE UpperHex(_)
UpperHex(n) ==
    IF n < 16 THEN <<UpperHexDigits[n + 1]>>
    ELSE UpperHex(n \div 16) \o <<UpperHexDigits[(n % 16) + 1]>>
\* format!("%{:02X}", c as u32): at least two hex digits
PercentEscape(c) == <<37>> \o (IF c < 16 THEN <<48>> ELSE <<>>) \o UpperHex(c)

\* GrpcStatus::encoded_message (status.rs:223-236), the map over the chars
RECURSIVE encoded_message(_)
encoded_message(m) ==
    IF m = <<>> THEN <<>>
    ELSE (IF is_ascii_alphanumeric(m[1]) \/ m[1] \in {45, 95, 46, 126}
          THEN <<m[1]>> ELSE PercentEscape(m[1]))
         \o encoded_message(Tail(m))

\* char::to_digit(16), -1 for a char that is no hex digit
HexDigitValue(c) ==
    IF c \in 48..57 THEN c - 48
    ELSE IF c \in 65..70 THEN c - 55
    ELSE IF c \in 97..102 THEN c - 87
    ELSE -1
\* u8::from_str_radix(&hex, 16) of a two-char string: Some(byte) or None
\* (a leading '+' is accepted)
from_str_radix(hex) ==
    IF HexDigitValue(hex[2]) < 0 THEN None
    ELSE IF hex[1] = 43 THEN Some(HexDigitValue(hex[2]))
    ELSE IF HexDigitValue(hex[1]) < 0 THEN None
    ELSE Some(HexDigitValue(hex[1]) * 16 + HexDigitValue(hex[2]))

\* GrpcStatus::decode_message (status.rs:239-258), the loop over the chars
RECURSIVE decode_chars(_, _)
decode_chars(chars, decoded_text) ==
    IF chars = <<>> THEN decoded_text
    ELSE IF chars[1] = 37
    THEN LET hex == Take(Tail(chars), IF Len(chars) - 1 < 2 THEN Len(chars) - 1 ELSE 2)
             rest == Drop(Tail(chars), Len(hex))
         IN  IF Len(hex) = 2 /\ hex[1] < 128 /\ hex[2] < 128 /\ from_str_radix(hex) # None
             THEN decode_chars(rest, Append(decoded_text, from_str_radix(hex)[1]))
             ELSE decode_chars(rest, decoded_text)
    ELSE decode_chars(Tail(chars), Append(decoded_text, chars[1]))
decode_message(encoded_bytes) == Some(decode_chars(encoded_bytes, <<>>))

\* ------------------------------------------------------------------------
\* gRPC stream state (src/grpc/stream.rs)
\* frames counted in each direction
MaxStreamFrames == 4
\* GrpcStreamState::new (stream.rs:69-83), without the clock fields
GrpcStreamState_new ==
    [ stream_type |-> "Unary", client_done |-> FALSE, response_started |-> FALSE,
      server_done |-> FALSE, trailers_sent |-> FALSE,
      request_frames |-> 0, response_frames |-> 0 ]

\* on_request_frame that only leaves Unary
on_request_frame_from_unary(st) ==
    LET counted == [st EXCEPT !.request_frames = @ + 1]
    IN  IF counted.request_frames > 1 /\ counted.stream_type = "Unary"
        THEN [counted EXCEPT !.stream_type = "ClientStreaming"]
        ELSE counted

\* GrpcStreamState::on_request_frame (stream.rs:86-102)
on_request_frame(st) ==
    LET counted == [st EXCEPT !.request_frames = @ + 1]
    IN  IF counted.request_frames > 1
        THEN CASE counted.stream_type = "Unary" ->
                    [counted EXCEPT !.stream_type = "ClientStreaming"]
               [] counted.stream_type = "ServerStreaming" ->
                    [counted EXCEPT !.stream_type = "BidirectionalStreaming"]
               [] OTHER -> counted
        ELSE counted

\* GrpcStreamState::on_response_frame (stream.rs:111-128)
on_response_frame(st) ==
    LET counted == [st EXCEPT !.response_frames = @ + 1, !.response_started = TRUE]
    IN  IF counted.response_frames > 1
        THEN CASE counted.stream_type = "Unary" ->
                    [counted EXCEPT !.stream_type = "ServerStreaming"]
               [] counted.stream_type = "ClientStreaming" ->
                    [counted EXCEPT !.stream_type = "BidirectionalStreaming"]
               [] OTHER -> counted
        ELSE counted

\* ------------------------------------------------------------------------
\* Response buffering (src/buffering/config.rs)
\* default_adaptive_threshold(): 1 MiB
DEFAULT_ADAPTIVE_THRESHOLD == 1048576
BufferingModes == {"Streaming", "Full", "Adaptive"}
AdaptiveThresholds == {0, 1, DEFAULT_ADAPTIVE_THRESHOLD}
\* Content-Length of the upstream response: None when it is not declared
ContentLengths ==
    {None} \cup { Some(n) : n \in {0, 1, 2, DEFAULT_ADAPTIVE_THRESHOLD - 1,
                                  DEFAULT_ADAPTIVE_THRESHOLD, DEFAULT_ADAPTIVE_THRESHOLD + 1} }
BufferingConfig(mode, adaptive_threshold) ==
    [ mode |-> mode, adaptive_threshold |-> adaptive_threshold ]
NoBuffering ==
    [ pc |-> "idle", config |-> BufferingConfig("Streaming", DEFAULT_ADAPTIVE_THRESHOLD),
      content_length |-> None, buffered |-> FALSE ]

\* should_buffer that streams a response of exactly the threshold
should_buffer_below(config, content_length) ==
    CASE config.mode = "Streaming" -> FALSE
      [] config.mode = "Full" -> TRUE
      [] OTHER -> IF content_length # None
                  THEN content_length[1] < config.adaptive_threshold
                  ELSE FALSE

\* BufferingConfig::should_buffer (config.rs:137-149)
should_buffer(config, content_length) ==
    CASE config.mode = "Streaming" -> FALSE
      [] config.mode = "Full" -> TRUE
      [] OTHER -> IF content_length # None
                  THEN content_length[1] <= config.adaptive_threshold
                  ELSE FALSE

\* ------------------------------------------------------------------------
\* Route cache key (src/routing/mod.rs RouteCacheKey) and the conditions a
\* lookup verifies after the indices.
\* lookups made against one snapshot
MaxKeyLookups == 2
\* routes of the snapshot
MaxKeyRoutes == 2
KeyPaths == {<<"/", "a">>, <<"/", "b">>}
KeyMethods == {"GET", "POST"}
\* the value of the one request header the routes look at, <<>> when absent
KeyHeaderValues == {<<>>, <<"x">>}
\* a route: path, methods and header condition, None when not declared
KeyRouteConditions ==
    { [path |-> p, methods |-> m, header |-> h] :
        p \in {None, Some(<<"/", "a">>)},
        m \in {None, Some({"GET"})},
        h \in {None, Some(<<"x">>)} }
KeyRequests ==
    { [host |-> <<"a", ".", "b">>, path |-> p, method |-> m,
       source_ip |-> from_be_bytes(10, 0, 0, 1), header |-> h] :
        p \in KeyPaths, m \in KeyMethods, h \in KeyHeaderValues }
NoKeyLookup ==
    [ count |-> 0, request |-> <<>>, answer |-> None, from_cache |-> FALSE ]

\* RouteCacheKey::new (mod.rs:464-471): host, path, method and source IP
RouteCacheKey_new(host, path, method, source_ip) ==
    [host |-> host, path |-> path, method |-> method, source_ip |-> source_ip]

\* the key the lookup probes the cache with
KeyOf(request) ==
    RouteCacheKey_new(request.host, request.path, request.method, request.source_ip)

\* lookup steps 2-4: the first route, in declaration order, whose path is a
\* candidate and whose method and header conditions hold
FullMatch(rs, request) ==
    LET matching == { i \in 1..Len(rs) :
                        /\ (rs[i].path = None \/ matches_pattern(rs[i].path[1], request.path))
                        /\ (rs[i].methods = None \/ request.method \in rs[i].methods[1])
                        /\ (rs[i].header = None \/ request.header = rs[i].header[1]) }
    IN  IF matching = {} THEN None
        ELSE Some((CHOOSE i \in matching : \A j \in matching : i <= j) - 1)

\* ------------------------------------------------------------------------
\* HTTP/3 response body (src/http3_server.rs): send_response and the later
\* flush_partial_responses on one stream.
\* longest response body, and the most bytes the stream accepts in one call
MaxBodyLen == 3
MaxCapacity == 3
BodyBytes == {1, 2}
ResponseBodies == UNION { [1..n -> BodyBytes] : n \in 1..MaxBodyLen }
NoH3Body ==
    [ pc |-> "idle", body |-> <<>>,
      stream |-> <<>>,          \* body bytes the stream has received, in order
      fin |-> FALSE,            \* the stream is finished
      failed |-> FALSE,         \* a send ended with an error other than Done
      partial_responses |-> None ]  \* Some([body, written]) while kept for flushing

\* quiche h3 send_body(stream, data, fin) when the stream accepts `capacity`
\* bytes: Err(Done) when it accepts none, else Ok(n) with the first n bytes
\* written and the stream finished when fin is set and all of data went out
h3_send_body(b, data, fin, capacity) ==
    IF capacity = 0 THEN [result |-> "Done", sent |-> 0, stream |-> b]
    ELSE LET n == IF capacity < Len(data) THEN capacity ELSE Len(data)
         IN  [ result |-> "Ok", sent |-> n,
               stream |-> [b EXCEPT !.stream = @ \o Take(data, n),
                                    !.fin = fin /\ n = Len(data)] ]

\* ------------------------------------------------------------------------
\* HTTP/3 request events (src/http3_server.rs process_h3_events) on one stream
\* longest request body
MaxRequestBodyLen == 3
RequestBodyBytes == {1, 2}
ClientBodies == UNION { [1..n -> RequestBodyBytes] : n \in 0..MaxRequestBodyLen }
\* the ways a body arrives as DATA chunks, each read by one recv_body loop
RECURSIVE ChunkSplits(_)
ChunkSplits(body) ==
    IF body = <<>> THEN {<<>>}
    ELSE UNION { { <<Take(body, n)>> \o rest : rest \in ChunkSplits(Drop(body, n)) } :
                   n \in 1..Len(body) }
\* the h3 events of a request: Headers, one Data per chunk, Finished
RequestEvents(chunks) ==
    <<[type |-> "Headers", more_frames |-> chunks # <<>>, data |-> <<>>]>>
    \o [i \in 1..Len(chunks) |-> [type |-> "Data", more_frames |-> FALSE, data |-> chunks[i]]]
    \o <<[type |-> "Finished", more_frames |-> FALSE, data |-> <<>>]>>
NoH3Request ==
    [ body |-> <<>>, events |-> <<>>, rounds |-> 0,
      handled |-> <<>> ]   \* the body of every handle_request call, in order

\* the poll loop of process_h3_events (http3_server.rs:147-190) over the
\* events of one call: the requests it collects.  stream_bodies is None or
\* Some(bytes) for the stream.
RECURSIVE poll_events(_, _, _)
poll_events(events, pending_requests, stream_bodies) ==
    IF events = <<>> THEN pending_requests
    ELSE LET e == Head(events)
         IN  IF e.type = "Headers"
             THEN IF ~e.more_frames
                  THEN poll_events(Tail(events), Append(pending_requests, <<>>), stream_bodies)
                  ELSE poll_events(Tail(events),
                          Append(pending_requests,
                                 IF stream_bodies = None THEN <<>> ELSE stream_bodies[1]),
                          None)
             ELSE IF e.type = "Data"
             THEN poll_events(Tail(events), pending_requests,
                      Some((IF stream_bodies = None THEN <<>> ELSE stream_bodies[1]) \o e.data))
             ELSE poll_events(Tail(events), pending_requests, stream_bodies)

\* ------------------------------------------------------------------------
\* HTTP/2 client read buffer (src/http2/client.rs read_frame, read_more,
\* compact_buffer).  Bytes are numbers 0..255; a frame on the wire is its
\* 9-byte header (24-bit length, type, flags, 31-bit stream id) and payload.
FrameHeader_SIZE == 9
\* vec![0u8; 65536] and the compaction threshold 32768, scaled down
InitialReadBufLen == 16
CompactAbove == 8
\* frames the peer sends, and the longest payload
MaxPeerFrames == 2
MaxPayloadLen == 2
PayloadByte == 200

\* the bytes of a DATA frame on stream sid with a payload of len bytes
WireFrame(sid, len) ==
    <<0, 0, len, 0, 0, 0, 0, 0, sid>> \o [k \in 1..len |-> PayloadByte]
\* what the peer sends: frame i is on stream i
PeerStreams ==
    UNION { [1..n -> 0..MaxPayloadLen] : n \in 1..MaxPeerFrames }
PeerFrameSeq(lens) == [i \in 1..Len(lens) |-> WireFrame(i, lens[i])]
RECURSIVE WireBytes(_)
WireBytes(frames) ==
    IF frames = <<>> THEN <<>> ELSE Head(frames) \o WireBytes(Tail(frames))

\* H2cClient::new, the read buffer fields (client.rs:68-70)
H2Read_new(frames) ==
    [ pc |-> "header",          \* read_frame: "header" / "payload" loop
      peer_frames |-> frames,
      unread |-> WireBytes(frames),   \* bytes the transport has still to deliver
      read_buf |-> [k \in 1..InitialReadBufLen |-> 0],
      capacity |-> InitialReadBufLen,
      buf_start |-> 0, buf_end |-> 0,
      total_len |-> 0,          \* of the frame whose header was decoded
      returned |-> <<>> ]       \* frames read_frame returned, in order
NoH2Read == [H2Read_new(<<>>) EXCEPT !.pc = "idle"]

\* FrameDecoder::decode_header on a slice: the payload length, or None when
\* the slice is shorter than a header or the length exceeds max_frame_size
decode_header(slice) ==
    IF Len(slice) < FrameHeader_SIZE THEN None
    ELSE LET length == slice[1] * 65536 + slice[2] * 256 + slice[3]
         IN  IF length > DEFAULT_MAX_FRAME_SIZE THEN None ELSE Some(length)

\* compact_buffer (client.rs:409-416); copy_within panics when the source
\* range ends past the vector's length
compact_buffer(c) ==
    IF c.buf_start = 0 THEN c
    ELSE IF c.buf_end > Len(c.read_buf) THEN [c EXCEPT !.pc = "panicked"]
    ELSE LET remaining == c.buf_end - c.buf_start
         IN  [c EXCEPT !.read_buf = [k \in 1..Len(c.read_buf) |->
                                        IF k <= remaining THEN c.read_buf[c.buf_start + k]
                                        ELSE c.read_buf[k]],
                       !.buf_start = 0, !.buf_end = remaining]
\* read_more up to the read (client.rs:386-392): compaction, or
\* Vec::resize(len * 2, 0)
make_room(c) ==
    IF c.buf_end < Len(c.read_buf) THEN c
    ELSE IF c.buf_start > 0 THEN compact_buffer(c)
    ELSE LET len == 2 * Len(c.read_buf)
         IN  [c EXCEPT !.read_buf = @ \o [k \in 1..Len(@) |-> 0],
                       !.capacity = IF len <= @ THEN @
                                    ELSE IF 2 * @ > len THEN 2 * @ ELSE len]

\* AsyncReadRent::read(buf: Vec<u8>) returning Ok(n): the transport is handed
\* the vector itself, so it writes the n bytes at the vector's start
\* (IoBufMut::write_ptr), at most its capacity (bytes_total), and sets the
\* vector's length to n (set_init)
stream_read(c, n) ==
    [c EXCEPT !.read_buf = Take(c.unread, n), !.unread = Drop(c.unread, n)]

\* read_more (client.rs:384-406) when the read returns Ok(n), n > 0
read_more(c, n) ==
    LET roomy == make_room(c)
    IN  IF roomy.pc = "panicked" THEN roomy
        ELSE [stream_read(roomy, n) EXCEPT !.buf_end = @ + n]


\* ========================================================================
\* gRPC message framing (src/grpc/framing.rs)
\* ========================================================================
GRPC_FRAME_HEADER_SIZE == 5
GRPC_MAX_MESSAGE_SIZE == 4194304

\* Largest payload length enumerated for the one-shot round trip.
MaxPayload == 3
\* Largest number of frames put on the wire of the streaming decoder.
MaxFrames == 2

\* Sample payload byte values.
PayloadBytes == {1, 200}

RECURSIVE SeqsUpTo(_, _)
SeqsUpTo(S, n) ==
    IF n = 0 THEN {<<>>}
    ELSE LET shorter == SeqsUpTo(S, n - 1)
         IN  shorter \cup {Append(s, x) : s \in {t \in shorter : Len(t) = n - 1}, x \in S}

Frames == [compressed : BOOLEAN, data : SeqsUpTo(PayloadBytes, MaxPayload)]

\* max_size values a caller passes: tiny limits and the default.
MaxSizes == {1, 2, GRPC_MAX_MESSAGE_SIZE}

\* (n as u32).to_be_bytes(): byte k of the low 32 bits of n
\* ((n \div 256^k) % 256 is the same byte with or without the truncation).
U32ToLe(n) ==
    <<n % 256, (n \div 256) % 256, (n \div 65536) % 256, (n \div 16777216) % 256>>
U32ToBe(n) ==
    <<(n \div 16777216) % 256, (n \div 65536) % 256, (n \div 256) % 256, n % 256>>

\* u32::from_be_bytes([b1, b2, b3, b4])
U32FromBe(b1, b2, b3, b4) == ((b1 * 256 + b2) * 256 + b3) * 256 + b4

\* GrpcFrame::encode
encode_le(f) ==
    <<IF f.compressed THEN 1 ELSE 0>> \o U32ToLe(Len(f.data)) \o f.data
encode(f) ==
    <<IF f.compressed THEN 1 ELSE 0>> \o U32ToBe(Len(f.data)) \o f.data

NoFrame == [compressed |-> FALSE, data |-> <<>>]
Ok(f, n) == [tag |-> "Ok", frame |-> f, consumed |-> n, a |-> 0, b |-> 0]
InsufficientData(req, avail) ==
    [tag |-> "InsufficientData", frame |-> NoFrame, consumed |-> 0, a |-> req, b |-> avail]
Pending == [tag |-> "Pending", frame |-> NoFrame, consumed |-> 0, a |-> 0, b |-> 0]
MessageTooLarge(size, max) ==
    [tag |-> "MessageTooLarge", frame |-> NoFrame, consumed |-> 0, a |-> size, b |-> max]

\* decode_grpc_frame_with_max_size
decode_payload_first(buf, max) ==
    IF Len(buf) < GRPC_FRAME_HEADER_SIZE
    THEN InsufficientData(GRPC_FRAME_HEADER_SIZE, Len(buf))
    ELSE LET compressed == (buf[1] = 1)
             length == U32FromBe(buf[2], buf[3], buf[4], buf[5])
             total_len == GRPC_FRAME_HEADER_SIZE + length
         IN  IF Len(buf) < total_len THEN InsufficientData(total_len, Len(buf))
             ELSE IF length > max THEN MessageTooLarge(length, max)
             ELSE Ok([compressed |-> compressed,
                      data |-> SubSeq(buf, GRPC_FRAME_HEADER_SIZE + 1, total_len)],
                     total_len)
decode_grpc_frame_with_max_size(buf, max) ==
    IF Len(buf) < GRPC_FRAME_HEADER_SIZE
    THEN InsufficientData(GRPC_FRAME_HEADER_SIZE, Len(buf))
    ELSE LET compressed == (buf[1] = 1)
             length == U32FromBe(buf[2], buf[3], buf[4], buf[5])
             total_len == GRPC_FRAME_HEADER_SIZE + length
         IN  IF length > max THEN MessageTooLarge(length, max)
             ELSE IF Len(buf) < total_len THEN InsufficientData(total_len, Len(buf))
             ELSE Ok([compressed |-> compressed,
                      data |-> SubSeq(buf, GRPC_FRAME_HEADER_SIZE + 1, total_len)],
                     total_len)

\* ---- one-shot round trip ------------------------------------------------
FramingInit ==
    /\ frame \in Frames
    /\ max_size \in MaxSizes
    /\ stage = "start"
    /\ encoded = <<>>
    /\ result = Pending
    \* the streaming decoder is not used
    /\ sent = <<>> /\ wire = <<>> /\ buffer = <<>> /\ max_message_size = 0
    /\ decoded = <<>> /\ last_decode = "idle"
    \* no Wasm module
    /\ grpc_feature = FALSE /\ http_ctx = NoContext /\ last_call = NoCall
    \* no HTTP/3 server
    /\ current_config = 0 /\ connections = NoConnections /\ started = 0
    /\ acquire_calls = NoCalls /\ release_calls = NoCalls
    \* no router
    /\ routes = <<>> /\ router = OptimizedRouter_new /\ finalized = FALSE
    /\ lookup = NoLookup
    /\ h2c = NoClient /\ h2_wire = NoWire
    /\ shared_queues = SharedQueueRegistry_new /\ queue_subscriptions = NoSubscriptions
    /\ notifying = NotNotifying /\ queue_log = NoQueueLog
    /\ tick_configs = TickRegistry_new /\ tick_now = 0 /\ callbacks = NoCallbacks
    /\ host_state_lock = NoHolders /\ tick_log = NoTickLog
    /\ http_exec = NoExecution
    /\ h3_stream = NoH3Stream
    /\ route_cache = <<>> /\ snapshot = 0 /\ lookups = NoLookups
    /\ grpc_timeout = NoTimeout
    /\ grpc_message = NoMessage
    /\ grpc_stream = GrpcStreamState_new
    /\ buffering = NoBuffering
    /\ key_routes = <<>> /\ key_cache = <<>> /\ key_lookup = NoKeyLookup
    /\ h3_body = NoH3Body
    /\ h3_request = NoH3Request
    /\ h2_read = NoH2Read

Encode ==
    /\ stage = "start"
    /\ encoded' = encode(frame)
    /\ stage' = "encoded"
    /\ UNCHANGED <<frame, max_size, result>>

Decode ==
    /\ stage = "encoded"
    /\ result' = decode_grpc_frame_with_max_size(encoded, max_size)
    /\ stage' = "decoded"
    /\ UNCHANGED <<frame, max_size, encoded>>

\* ---- decoding bytes a peer sent ------------------------------------------
\* Values of the flags byte, and lengths a header declares.
FlagBytes == {0, 1, 2, 3, 128, 255}
DeclaredLengths == {0, 1, 2, 3, GRPC_MAX_MESSAGE_SIZE + 1}
\* Buffers handed to the decoder: a header followed by the payload bytes that
\* have arrived, possibly cut short.
RawBuffers ==
    LET whole == { <<flags>> \o U32ToBe(length) \o payload :
                      flags \in FlagBytes, length \in DeclaredLengths,
                      payload \in SeqsUpTo({1}, MaxPayload) }
    IN  whole \cup { Take(b, GRPC_FRAME_HEADER_SIZE - 1) : b \in whole }

RawInit ==
    /\ frame = NoFrame
    /\ max_size \in MaxSizes
    /\ stage = "start"
    /\ encoded = <<>>
    /\ result = Pending
    \* the streaming decoder is not used
    /\ sent = <<>> /\ wire = <<>> /\ buffer = <<>> /\ max_message_size = 0
    /\ decoded = <<>> /\ last_decode = "idle"
    \* no Wasm module
    /\ grpc_feature = FALSE /\ http_ctx = NoContext /\ last_call = NoCall
    \* no HTTP/3 server
    /\ current_config = 0 /\ connections = NoConnections /\ started = 0
    /\ acquire_calls = NoCalls /\ release_calls = NoCalls
    \* no router
    /\ routes = <<>> /\ router = OptimizedRouter_new /\ finalized = FALSE
    /\ lookup = NoLookup
    /\ h2c = NoClient /\ h2_wire = NoWire
    /\ shared_queues = SharedQueueRegistry_new /\ queue_subscriptions = NoSubscriptions
    /\ notifying = NotNotifying /\ queue_log = NoQueueLog
    /\ tick_configs = TickRegistry_new /\ tick_now = 0 /\ callbacks = NoCallbacks
    /\ host_state_lock = NoHolders /\ tick_log = NoTickLog
    /\ http_exec = NoExecution
    /\ h3_stream = NoH3Stream
    /\ route_cache = <<>> /\ snapshot = 0 /\ lookups = NoLookups
    /\ grpc_timeout = NoTimeout
    /\ grpc_message = NoMessage
    /\ grpc_stream = GrpcStreamState_new
    /\ buffering = NoBuffering
    /\ key_routes = <<>> /\ key_cache = <<>> /\ key_lookup = NoKeyLookup
    /\ h3_body = NoH3Body
    /\ h3_request = NoH3Request
    /\ h2_read = NoH2Read

\* The caller holds bytes read from the transport.
ReceiveBytes ==
    /\ stage = "start"
    /\ encoded' \in RawBuffers
    /\ stage' = "encoded"
    /\ UNCHANGED <<frame, max_size, result>>

\* ---- GrpcFrameDecoder ---------------------------------------------------
\* Frames a peer sends to the streaming decoder.
StreamFrames ==
    { [compressed |-> FALSE, data |-> <<>>],
      [compressed |-> TRUE,  data |-> <<1>>],
      [compressed |-> FALSE, data |-> <<200, 1>>],
      [compressed |-> TRUE,  data |-> <<1, 1, 200>>] }

\* buffer.drain(..consumed)
DrainAll(buf, consumed) == <<>>
Drain(buf, consumed) == Drop(buf, consumed)

DecoderInit ==
    /\ sent = <<>>
    /\ wire = <<>>
    /\ buffer = <<>>
    /\ max_message_size \in MaxSizes
    /\ decoded = <<>>
    /\ last_decode = "idle"
    \* the one-shot codec is not used
    /\ frame = NoFrame /\ max_size = 0 /\ stage = "start"
    /\ encoded = <<>> /\ result = Pending
    \* no Wasm module
    /\ grpc_feature = FALSE /\ http_ctx = NoContext /\ last_call = NoCall
    \* no HTTP/3 server
    /\ current_config = 0 /\ connections = NoConnections /\ started = 0
    /\ acquire_calls = NoCalls /\ release_calls = NoCalls
    \* no router
    /\ routes = <<>> /\ router = OptimizedRouter_new /\ finalized = FALSE
    /\ lookup = NoLookup
    /\ h2c = NoClient /\ h2_wire = NoWire
    /\ shared_queues = SharedQueueRegistry_new /\ queue_subscriptions = NoSubscriptions
    /\ notifying = NotNotifying /\ queue_log = NoQueueLog
    /\ tick_configs = TickRegistry_new /\ tick_now = 0 /\ callbacks = NoCallbacks
    /\ host_state_lock = NoHolders /\ tick_log = NoTickLog
    /\ http_exec = NoExecution
    /\ h3_stream = NoH3Stream
    /\ route_cache = <<>> /\ snapshot = 0 /\ lookups = NoLookups
    /\ grpc_timeout = NoTimeout
    /\ grpc_message = NoMessage
    /\ grpc_stream = GrpcStreamState_new
    /\ buffering = NoBuffering
    /\ key_routes = <<>> /\ key_cache = <<>> /\ key_lookup = NoKeyLookup
    /\ h3_body = NoH3Body
    /\ h3_request = NoH3Request
    /\ h2_read = NoH2Read

\* The peer writes one more encoded frame.
SendFrame ==
    /\ Len(sent) < MaxFrames
    /\ \E f \in StreamFrames :
          /\ sent' = Append(sent, f)
          /\ wire' = wire \o encode(f)
    /\ UNCHANGED <<buffer, max_message_size, decoded, last_decode>>

\* GrpcFrameDecoder::push with the next n bytes read from the transport
Push ==
    /\ \E n \in 1..Len(wire) :
          /\ buffer' = buffer \o Take(wire, n)
          /\ wire' = Drop(wire, n)
    /\ last_decode' = "idle"
    /\ UNCHANGED <<sent, max_message_size, decoded>>

\* GrpcFrameDecoder::decode_next
DecodeNext ==
    /\ IF Len(buffer) < GRPC_FRAME_HEADER_SIZE
       THEN /\ last_decode' = "none"
            /\ UNCHANGED <<buffer, decoded>>
       ELSE LET r == decode_grpc_frame_with_max_size(buffer, max_message_size)
            IN  CASE r.tag = "Ok" ->
                       /\ buffer' = Drain(buffer, r.consumed)
                       /\ decoded' = Append(decoded, r.frame)
                       /\ last_decode' = "some"
                  [] r.tag = "InsufficientData" ->
                       /\ last_decode' = "none"
                       /\ UNCHANGED <<buffer, decoded>>
                  [] OTHER ->
                       /\ last_decode' = "err"
                       /\ UNCHANGED <<buffer, decoded>>
    /\ UNCHANGED <<sent, wire, max_message_size>>

\* ---- Proxy-Wasm host-call actions ----------------------------------------
WasmInit ==
    /\ grpc_feature \in BOOLEAN
    /\ \E caps \in CallCapabilitySets : http_ctx = NewContext(caps)
    /\ last_call = NoCall
    \* the gRPC codec is not used
    /\ frame = NoFrame /\ max_size = 0 /\ stage = "start"
    /\ encoded = <<>> /\ result = Pending
    /\ sent = <<>> /\ wire = <<>> /\ buffer = <<>> /\ max_message_size = 0
    /\ decoded = <<>> /\ last_decode = "idle"
    \* no HTTP/3 server
    /\ current_config = 0 /\ connections = NoConnections /\ started = 0
    /\ acquire_calls = NoCalls /\ release_calls = NoCalls
    \* no router
    /\ routes = <<>> /\ router = OptimizedRouter_new /\ finalized = FALSE
    /\ lookup = NoLookup
    /\ h2c = NoClient /\ h2_wire = NoWire
    /\ shared_queues = SharedQueueRegistry_new /\ queue_subscriptions = NoSubscriptions
    /\ notifying = NotNotifying /\ queue_log = NoQueueLog
    /\ tick_configs = TickRegistry_new /\ tick_now = 0 /\ callbacks = NoCallbacks
    /\ host_state_lock = NoHolders /\ tick_log = NoTickLog
    /\ http_exec = NoExecution
    /\ h3_stream = NoH3Stream
    /\ route_cache = <<>> /\ snapshot = 0 /\ lookups = NoLookups
    /\ grpc_timeout = NoTimeout
    /\ grpc_message = NoMessage
    /\ grpc_stream = GrpcStreamState_new
    /\ buffering = NoBuffering
    /\ key_routes = <<>> /\ key_cache = <<>> /\ key_lookup = NoKeyLookup
    /\ h3_body = NoH3Body
    /\ h3_request = NoH3Request
    /\ h2_read = NoH2Read

\* The module calls proxy_http_call.
ProxyHttpCall ==
    /\ http_ctx.next_http_call_token <= MaxTokens
    /\ \E a \in HttpCallArgs :
          LET r == proxy_http_call(http_ctx, a)
          IN  /\ http_ctx' = r.ctx
              /\ last_call' = [fn |-> "proxy_http_call", upstream |-> a.upstream,
                               path |-> <<>>, ret |-> r.ret,
                               recorded |-> (r.ctx.pending_http_calls
                                               # http_ctx.pending_http_calls),
                               checked |->
                                  /\ a.upstream_ok
                                  /\ Cardinality(http_ctx.pending_http_calls)
                                       < http_ctx.capabilities.max_http_calls]
    /\ UNCHANGED grpc_feature

\* The module calls proxy_grpc_call (grpc.rs:33-71).
ProxyGrpcCall ==
    /\ http_ctx.next_grpc_call_id <= MaxTokens
    /\ \E a \in GrpcCallArgs :
          LET r == IF grpc_feature THEN proxy_grpc_call_impl(http_ctx, a)
                   ELSE Returned(PROXY_RESULT_UNIMPLEMENTED, http_ctx)
          IN  /\ http_ctx' = r.ctx
              /\ last_call' = [fn |-> "proxy_grpc_call", upstream |-> a.upstream,
                               path |-> <<>>, ret |-> r.ret,
                               recorded |-> (r.ctx.pending_grpc_calls
                                               # http_ctx.pending_grpc_calls),
                               checked |-> a.args_ok]
    /\ UNCHANGED grpc_feature

\* The module calls proxy_grpc_stream (grpc.rs:75-109).
ProxyGrpcStream ==
    /\ http_ctx.next_grpc_stream_id <= MaxTokens
    /\ \E a \in GrpcCallArgs :
          LET r == IF grpc_feature THEN proxy_grpc_stream_impl(http_ctx, a)
                   ELSE Returned(PROXY_RESULT_UNIMPLEMENTED, http_ctx)
          IN  /\ http_ctx' = r.ctx
              /\ last_call' = [fn |-> "proxy_grpc_stream", upstream |-> a.upstream,
                               path |-> <<>>, ret |-> r.ret,
                               recorded |-> (r.ctx.pending_grpc_streams
                                               # http_ctx.pending_grpc_streams),
                               checked |-> a.args_ok]
    /\ UNCHANGED grpc_feature

\* The module calls proxy_grpc_cancel (grpc.rs:113-128).
ProxyGrpcCancel ==
    /\ \E call_id \in 1..MaxTokens :
          LET r == IF grpc_feature THEN proxy_grpc_cancel_impl(http_ctx, call_id)
                   ELSE Returned(PROXY_RESULT_UNIMPLEMENTED, http_ctx)
          IN  /\ http_ctx' = r.ctx
              /\ last_call' = [fn |-> "proxy_grpc_cancel", upstream |-> "",
                               path |-> <<>>, ret |-> r.ret, recorded |-> FALSE,
                               checked |-> FALSE]
    /\ UNCHANGED grpc_feature

\* HttpContext::take_pending_http_calls: the engine takes the calls to run
TakePendingHttpCalls ==
    /\ http_ctx.pending_http_calls # {}
    /\ http_ctx' = [http_ctx EXCEPT
                      !.pending_http_calls = {},
                      !.taken_http_calls =
                          @ \cup {c.token : c \in http_ctx.pending_http_calls}]
    /\ last_call' = [fn |-> "take_pending_http_calls", upstream |-> "",
                     path |-> <<>>, ret |-> NoStatus, recorded |-> FALSE,
                     checked |-> FALSE]
    /\ UNCHANGED grpc_feature

\* The engine delivers the response of a call it took to the module
\* (proxy_on_http_call_response).
OnHttpCallComplete ==
    /\ \E token \in http_ctx.taken_http_calls :
          /\ http_ctx' = [http_ctx EXCEPT !.taken_http_calls = @ \ {token}]
          /\ last_call' = [fn |-> "on_http_call_complete", upstream |-> "",
                           path |-> <<>>, ret |-> NoStatus, recorded |-> FALSE,
                           checked |-> FALSE]
    /\ UNCHANGED grpc_feature

\* ---- property reads ------------------------------------------------------
PropertyInit ==
    /\ grpc_feature = FALSE
    /\ \E caps \in PropertyCapabilitySets : http_ctx = NewContext(caps)
    /\ last_call = NoCall
    \* the gRPC codec is not used
    /\ frame = NoFrame /\ max_size = 0 /\ stage = "start"
    /\ encoded = <<>> /\ result = Pending
    /\ sent = <<>> /\ wire = <<>> /\ buffer = <<>> /\ max_message_size = 0
    /\ decoded = <<>> /\ last_decode = "idle"
    \* no HTTP/3 server
    /\ current_config = 0 /\ connections = NoConnections /\ started = 0
    /\ acquire_calls = NoCalls /\ release_calls = NoCalls
    \* no router
    /\ routes = <<>> /\ router = OptimizedRouter_new /\ finalized = FALSE
    /\ lookup = NoLookup
    /\ h2c = NoClient /\ h2_wire = NoWire
    /\ shared_queues = SharedQueueRegistry_new /\ queue_subscriptions = NoSubscriptions
    /\ notifying = NotNotifying /\ queue_log = NoQueueLog
    /\ tick_configs = TickRegistry_new /\ tick_now = 0 /\ callbacks = NoCallbacks
    /\ host_state_lock = NoHolders /\ tick_log = NoTickLog
    /\ http_exec = NoExecution
    /\ h3_stream = NoH3Stream
    /\ route_cache = <<>> /\ snapshot = 0 /\ lookups = NoLookups
    /\ grpc_timeout = NoTimeout
    /\ grpc_message = NoMessage
    /\ grpc_stream = GrpcStreamState_new
    /\ buffering = NoBuffering
    /\ key_routes = <<>> /\ key_cache = <<>> /\ key_lookup = NoKeyLookup
    /\ h3_body = NoH3Body
    /\ h3_request = NoH3Request
    /\ h2_read = NoH2Read

\* A property read asks ModuleCapabilities::is_property_allowed.
CheckProperty ==
    /\ \E path \in PropertyPaths :
          last_call' = [fn |-> "is_property_allowed", upstream |-> "", path |-> path,
                        ret |-> IF is_property_allowed(http_ctx.capabilities, path)
                                THEN PROXY_RESULT_OK ELSE PROXY_RESULT_NOT_ALLOWED,
                        recorded |-> FALSE, checked |-> TRUE]
    /\ UNCHANGED <<grpc_feature, http_ctx>>

\* ---- HTTP/3 server actions -----------------------------------------------
Http3Init ==
    /\ current_config = 0
    /\ connections = NoConnections
    /\ started = 0
    /\ acquire_calls = NoCalls
    /\ release_calls = NoCalls
    \* no gRPC codec, no Wasm module
    /\ frame = NoFrame /\ max_size = 0 /\ stage = "start"
    /\ encoded = <<>> /\ result = Pending
    /\ sent = <<>> /\ wire = <<>> /\ buffer = <<>> /\ max_message_size = 0
    /\ decoded = <<>> /\ last_decode = "idle"
    /\ grpc_feature = FALSE /\ http_ctx = NoContext /\ last_call = NoCall
    \* no router
    /\ routes = <<>> /\ router = OptimizedRouter_new /\ finalized = FALSE
    /\ lookup = NoLookup
    /\ h2c = NoClient /\ h2_wire = NoWire
    /\ shared_queues = SharedQueueRegistry_new /\ queue_subscriptions = NoSubscriptions
    /\ notifying = NotNotifying /\ queue_log = NoQueueLog
    /\ tick_configs = TickRegistry_new /\ tick_now = 0 /\ callbacks = NoCallbacks
    /\ host_state_lock = NoHolders /\ tick_log = NoTickLog
    /\ http_exec = NoExecution
    /\ h3_stream = NoH3Stream
    /\ route_cache = <<>> /\ snapshot = 0 /\ lookups = NoLookups
    /\ grpc_timeout = NoTimeout
    /\ grpc_message = NoMessage
    /\ grpc_stream = GrpcStreamState_new
    /\ buffering = NoBuffering
    /\ key_routes = <<>> /\ key_cache = <<>> /\ key_lookup = NoKeyLookup
    /\ h3_body = NoH3Body
    /\ h3_request = NoH3Request
    /\ h2_read = NoH2Read

\* A reload publishes a new snapshot (CURRENT_CONFIG.store).
SwapConfig ==
    /\ current_config < MaxSwaps
    /\ current_config' = current_config + 1
    /\ UNCHANGED <<connections, started, acquire_calls, release_calls>>

\* An Initial packet for an unknown connection id (http3_server.rs:806-835).
NewConnection(c) ==
    /\ ~connections[c].open
    /\ connections' = [connections EXCEPT ![c] = Http3Handler(get_routes(current_config))]
    /\ UNCHANGED <<current_config, started, acquire_calls, release_calls>>

\* The connection is closed and removed from the map (http3_server.rs:899-907).
CloseConnection(c) ==
    /\ connections[c].open
    /\ connections[c].pc = "idle"
    /\ connections' = [connections EXCEPT ![c] = Closed]
    /\ UNCHANGED <<current_config, started, acquire_calls, release_calls>>

\* handle_request begins: the headers are parsed (http3_server.rs:207-245).
StartRequest(c) ==
    /\ connections[c].open
    /\ connections[c].pc = "idle"
    /\ started < MaxRequests
    /\ started' = started + 1
    /\ connections' = [connections EXCEPT ![c] =
          [@ EXCEPT !.pc = "parsed",
                    !.start_config = current_config,
                    !.start_routes = [host_routes |-> connections[c].host_routes,
                                      path_routes |-> connections[c].path_routes],
                    !.routed = FALSE, !.used_host = 0, !.used_path = 0,
                    !.server = NoServer, !.status = 0]]
    /\ UNCHANGED <<current_config, acquire_calls, release_calls>>

\* The /__metrics endpoint answers without routing (http3_server.rs:248-258).
ServeMetrics(c) ==
    /\ connections[c].pc = "parsed"
    /\ connections' = [connections EXCEPT ![c] = [@ EXCEPT !.pc = "done", !.status = 200]]
    /\ UNCHANGED <<current_config, started, acquire_calls, release_calls>>

\* find_backend(&authority, &path, &self.host_routes, &self.path_routes), the
\* security check and the dispatch on the backend (http3_server.rs:261-332).
\* outcome: "none" (400), "denied" (security check), "proxy", "local"
\* (memory file, file or redirect).
FindBackend(c) ==
    /\ connections[c].pc = "parsed"
    /\ \E outcome \in {"none", "denied", "proxy", "local"} :
          connections' = [connections EXCEPT ![c] =
              [@ EXCEPT !.routed = TRUE,
                        !.used_host = connections[c].host_routes,
                        !.used_path = connections[c].path_routes,
                        !.pc = IF outcome = "proxy" THEN "handle_proxy" ELSE "done",
                        !.status = CASE outcome = "none" -> 400
                                     [] outcome = "denied" -> 403
                                     [] outcome = "proxy" -> 0
                                     [] OTHER -> 200]]
    /\ UNCHANGED <<current_config, started, acquire_calls, release_calls>>

\* handle_proxy: upstream_group.select (http3_server.rs:424-430)
SelectServer(c) ==
    /\ connections[c].pc = "handle_proxy"
    /\ \E s \in Servers \cup {NoServer} :
          connections' = [connections EXCEPT ![c] =
              IF s = NoServer
              THEN [@ EXCEPT !.pc = "done", !.status = 502]
              ELSE [@ EXCEPT !.pc = "selected", !.server = s]]
    /\ UNCHANGED <<current_config, started, acquire_calls, release_calls>>

\* handle_proxy: server.acquire() (http3_server.rs:432)
Acquire(c) ==
    /\ connections[c].pc = "selected"
    /\ acquire_calls' = [acquire_calls EXCEPT ![connections[c].server] = @ + 1]
    /\ connections' = [connections EXCEPT ![c] = [@ EXCEPT !.pc = "acquired"]]
    /\ UNCHANGED <<current_config, started, release_calls>>

\* handle_proxy: let result = self.proxy_to_backend(..)?; server.release();
\* Ok(result) (http3_server.rs:503-506); handle_request maps an Err to (502, 11).
ProxyToBackend(c) ==
    /\ connections[c].pc = "acquired"
    /\ \E outcome \in H3Outcomes :
          IF proxy_to_backend(outcome) = "Err"
          THEN /\ connections' = [connections EXCEPT ![c] =
                                     [@ EXCEPT !.pc = "done", !.status = 502]]
               /\ UNCHANGED release_calls
          ELSE /\ release_calls' = [release_calls EXCEPT ![connections[c].server] = @ + 1]
               /\ connections' = [connections EXCEPT ![c] =
                                     [@ EXCEPT !.pc = "done", !.status = 502]]
    /\ UNCHANGED <<current_config, started, acquire_calls>>

\* handle_request returns after record_metrics (http3_server.rs:334-335).
FinishRequest(c) ==
    /\ connections[c].pc = "done"
    /\ connections' = [connections EXCEPT ![c] = [@ EXCEPT !.pc = "idle"]]
    /\ UNCHANGED <<current_config, started, acquire_calls, release_calls>>

\* ---- routing actions -----------------------------------------------------
RouterInit ==
    /\ routes = <<>>
    /\ router = OptimizedRouter_new
    /\ finalized = FALSE
    /\ lookup = NoLookup
    /\ h2c = NoClient /\ h2_wire = NoWire
    /\ shared_queues = SharedQueueRegistry_new /\ queue_subscriptions = NoSubscriptions
    /\ notifying = NotNotifying /\ queue_log = NoQueueLog
    \* no gRPC codec, no Wasm module, no HTTP/3 server
    /\ frame = NoFrame /\ max_size = 0 /\ stage = "start"
    /\ encoded = <<>> /\ result = Pending
    /\ sent = <<>> /\ wire = <<>> /\ buffer = <<>> /\ max_message_size = 0
    /\ decoded = <<>> /\ last_decode = "idle"
    /\ grpc_feature = FALSE /\ http_ctx = NoContext /\ last_call = NoCall
    /\ current_config = 0 /\ connections = NoConnections /\ started = 0
    /\ acquire_calls = NoCalls /\ release_calls = NoCalls
    /\ tick_configs = TickRegistry_new /\ tick_now = 0 /\ callbacks = NoCallbacks
    /\ host_state_lock = NoHolders /\ tick_log = NoTickLog
    /\ http_exec = NoExecution
    /\ h3_stream = NoH3Stream
    /\ route_cache = <<>> /\ snapshot = 0 /\ lookups = NoLookups
    /\ grpc_timeout = NoTimeout
    /\ grpc_message = NoMessage
    /\ grpc_stream = GrpcStreamState_new
    /\ buffering = NoBuffering
    /\ key_routes = <<>> /\ key_cache = <<>> /\ key_lookup = NoKeyLookup
    /\ h3_body = NoH3Body
    /\ h3_request = NoH3Request
    /\ h2_read = NoH2Read

\* The next route of the configuration is added under its index in
\* declaration order (OptimizedRouter::add_route).
AddRoute ==
    /\ ~finalized
    /\ Len(routes) < MaxRoutes
    /\ \E host \in HostConditions, path \in PathConditions,
          source_ip \in SourceIpConditions, inserted \in BOOLEAN :
          /\ routes' = Append(routes, [host |-> host, path |-> path, source_ip |-> source_ip])
          /\ router' = OptimizedRouter_add_route(router, Len(routes), host, path,
                                                 source_ip, inserted)
    /\ UNCHANGED <<finalized, lookup>>

\* OptimizedRouter::finalize
Finalize ==
    /\ ~finalized
    /\ router' = finalize(router)
    /\ finalized' = TRUE
    /\ UNCHANGED <<routes, lookup>>

\* A request is looked up (OptimizedRouter::get_candidates).
GetCandidates ==
    /\ finalized
    /\ ~lookup.done
    /\ \E host \in RequestHosts, path \in RequestPaths, source_ip \in RequestIps :
          lookup' = [done |-> TRUE, host |-> host, path |-> path, source_ip |-> source_ip,
                     candidates |-> OptimizedRouter_get_candidates(router, host, path, source_ip)]
    /\ UNCHANGED <<routes, router, finalized>>

\* The caller has taken the candidates; the next request can be looked up.
ReturnCandidates ==
    /\ lookup.done
    /\ lookup' = NoLookup
    /\ UNCHANGED <<routes, router, finalized>>

\* ---- single-index actions ---------------------------------------------------
\* A route with one condition is added (OptimizedRouter::add_route).
AddIndexRoute ==
    /\ ~finalized
    /\ Len(routes) < MaxRoutes
    /\ \E route \in IndexRoutes, inserted \in BOOLEAN :
          /\ routes' = Append(routes, route)
          /\ router' = OptimizedRouter_add_route(router, Len(routes), route.host, route.path,
                                                 route.source_ip, inserted)
    /\ UNCHANGED <<finalized, lookup>>

\* HostRouter::get_candidates (mod.rs:95-137)
GetHostCandidates ==
    /\ finalized
    /\ ~lookup.done
    /\ \E host \in IndexHosts :
          lookup' = [NoLookup EXCEPT !.done = TRUE, !.host = host,
                       !.candidates = HostRouter_get_candidates(router.host_router, host)]
    /\ UNCHANGED <<routes, router, finalized>>

\* PathRouter::get_candidates (mod.rs:226-245)
GetPathCandidates ==
    /\ finalized
    /\ ~lookup.done
    /\ \E path \in IndexPaths :
          lookup' = [NoLookup EXCEPT !.done = TRUE, !.path = path,
                       !.candidates = PathRouter_get_candidates(router.path_router, path)]
    /\ UNCHANGED <<routes, router, finalized>>

\* CidrMatcher::get_candidates (mod.rs:380-431)
GetIpCandidates ==
    /\ finalized
    /\ ~lookup.done
    /\ \E ip \in IndexIps :
          lookup' = [NoLookup EXCEPT !.done = TRUE, !.source_ip = ip,
                       !.candidates = CidrMatcher_get_candidates(router.cidr_matcher, ip)]
    /\ UNCHANGED <<routes, router, finalized>>

\* ---- HTTP/2 client actions -----------------------------------------------
H2Init ==
    /\ h2c \in { H2cClient_new(id, w) : id \in FirstStreamIds, w \in LocalInitialWindowSizes }
    /\ h2_wire = NoWire
    /\ shared_queues = SharedQueueRegistry_new /\ queue_subscriptions = NoSubscriptions
    /\ notifying = NotNotifying /\ queue_log = NoQueueLog
    \* no gRPC codec, no Wasm module, no HTTP/3 server, no router
    /\ frame = NoFrame /\ max_size = 0 /\ stage = "start"
    /\ encoded = <<>> /\ result = Pending
    /\ sent = <<>> /\ wire = <<>> /\ buffer = <<>> /\ max_message_size = 0
    /\ decoded = <<>> /\ last_decode = "idle"
    /\ grpc_feature = FALSE /\ http_ctx = NoContext /\ last_call = NoCall
    /\ current_config = 0 /\ connections = NoConnections /\ started = 0
    /\ acquire_calls = NoCalls /\ release_calls = NoCalls
    /\ routes = <<>> /\ router = OptimizedRouter_new /\ finalized = FALSE
    /\ lookup = NoLookup
    /\ tick_configs = TickRegistry_new /\ tick_now = 0 /\ callbacks = NoCallbacks
    /\ host_state_lock = NoHolders /\ tick_log = NoTickLog
    /\ http_exec = NoExecution
    /\ h3_stream = NoH3Stream
    /\ route_cache = <<>> /\ snapshot = 0 /\ lookups = NoLookups
    /\ grpc_timeout = NoTimeout
    /\ grpc_message = NoMessage
    /\ grpc_stream = GrpcStreamState_new
    /\ buffering = NoBuffering
    /\ key_routes = <<>> /\ key_cache = <<>> /\ key_lookup = NoKeyLookup
    /\ h3_body = NoH3Body
    /\ h3_request = NoH3Request
    /\ h2_read = NoH2Read

\* H2cClient::handshake: the preface and send_settings (client.rs:84-113)
Handshake ==
    /\ h2c.pc = "new"
    /\ h2c' = [h2c EXCEPT !.settings_ack_pending = TRUE, !.pc = "await_settings"]
    /\ UNCHANGED h2_wire

HandshakeFrames ==
    {f \in PeerFrames(NoStream) : f.type \in {"Settings", "WindowUpdate", "Ping", "GoAway", "Closed"}}

\* receive_server_settings: the first frame (client.rs:118-142)
ReceiveServerSettings ==
    /\ h2c.pc = "await_settings"
    /\ h2_wire.frames_read < MaxH2Frames
    /\ \E f \in HandshakeFrames :
          LET w == PeerBooks(h2_wire, f, NoStream) IN
          IF f.type = "Settings" /\ ~f.ack
          THEN LET c == ApplyHandshakeSettings(h2c, f.settings) IN
               /\ h2c' = [c EXCEPT !.pc = "await_ack"]
               /\ h2_wire' = [w EXCEPT !.acks_sent = @ + 1,
                                       !.settings_applied = SettingsInForce(c, f.settings)]
          ELSE /\ h2c' = [h2c EXCEPT !.pc = "failed",
                             !.result = IF f.type = "Closed" THEN "ConnectionClosed"
                                        ELSE "Expected SETTINGS frame"]
               /\ h2_wire' = w

\* receive_server_settings: the wait for the peer's ack (client.rs:144-164)
AwaitSettingsAck ==
    /\ h2c.pc = "await_ack"
    /\ h2_wire.frames_read < MaxH2Frames
    /\ \E f \in HandshakeFrames :
          LET w == PeerBooks(h2_wire, f, NoStream) IN
          /\ h2c' = CASE f.type = "Closed" ->
                            [h2c EXCEPT !.pc = "failed", !.result = "ConnectionClosed"]
                      [] f.type = "Settings" /\ f.ack ->
                            [h2c EXCEPT !.settings_ack_pending = FALSE, !.pc = "ready"]
                      [] OTHER -> h2c
          /\ h2_wire' = IF f.type = "Settings" /\ ~f.ack
                        THEN [w EXCEPT !.settings_applied = SettingsInForce(h2c, f.settings)]
                        ELSE w

\* Bodies of send_request, and messages of send_grpc_request (framed with the
\* 5-byte gRPC header).
RequestBodies == {0, 3, CONNECTION_WINDOW_SIZE + 1}
GrpcMessages == {0, 1}

\* send_request / send_grpc_request up to the HEADERS frame
\* (client.rs:170-213, 480-524)
SendRequest ==
    /\ h2c.pc = "ready"
    /\ h2_wire.requests < MaxH2Requests
    /\ \E body_len \in RequestBodies \cup {GRPC_FRAME_HEADER_SIZE + m : m \in GrpcMessages} :
          LET stream_id == h2c.next_stream_id IN
          /\ h2c' = [h2c EXCEPT !.next_stream_id = U32Add2(@),
                                !.stream_id = stream_id,
                                !.body_len = body_len,
                                !.offset = 0,
                                !.result = "none",
                                !.pc = IF body_len = 0 THEN "receiving" ELSE "sending"]
          /\ h2_wire' = [h2_wire EXCEPT
                !.requests = @ + 1,
                !.streams_started = Append(@, stream_id),
                !.started_after_goaway = @ \/ h2_wire.goaway_received,
                !.completed = IF body_len = 0 THEN @ \cup {h2_wire.requests + 1} ELSE @,
                !.stream_sent = 0,
                !.stream_granted = h2_wire.peer_initial_window_size,
                !.peer_stream_allow = h2c.local_initial_window_size]

\* send_data: one turn of the chunk loop (client.rs:227-250)
SendData ==
    /\ h2c.pc = "sending"
    /\ LET remaining == h2c.body_len - h2c.offset
           max_frame_size == h2c.remote_max_frame_size
           chunk_len == IF remaining < max_frame_size THEN remaining ELSE max_frame_size
       IN  IF chunk_len > h2c.conn_send_window
           THEN /\ h2c' = [h2c EXCEPT !.pc = "failed", !.result = "Send window exhausted"]
                /\ UNCHANGED h2_wire
           ELSE /\ h2c' = [h2c EXCEPT
                    !.conn_send_window = @ - chunk_len,
                    !.offset = @ + chunk_len,
                    !.pc = IF h2c.offset + chunk_len >= h2c.body_len
                           THEN "receiving" ELSE "sending"]
                /\ h2_wire' = [h2_wire EXCEPT
                    !.overran = \/ @
                                \/ chunk_len > h2_wire.conn_granted - h2_wire.conn_sent
                                \/ chunk_len > h2_wire.stream_granted - h2_wire.stream_sent,
                    !.conn_sent = @ + chunk_len,
                    !.stream_sent = @ + chunk_len,
                    !.completed = IF h2c.offset + chunk_len >= h2c.body_len
                                  THEN @ \cup {h2_wire.requests} ELSE @]

\* receive_response / receive_grpc_response: one frame of the loop
\* (client.rs:253-350, 534-643)
ReceiveResponse ==
    /\ h2c.pc = "receiving"
    /\ h2_wire.frames_read < MaxH2Frames
    /\ \E f \in PeerFrames(h2c.stream_id) :
          /\ PeerMaySend(h2_wire, f, h2c.stream_id)
          /\ LET w == PeerBooks(h2_wire, f, h2c.stream_id)
                 mine == f.sid = h2c.stream_id
                 returned_ok == [h2c EXCEPT !.pc = "ready", !.result = "Ok"]
             IN
             CASE f.type = "Closed" ->
                    /\ h2c' = [h2c EXCEPT !.pc = "failed", !.result = "ConnectionClosed"]
                    /\ h2_wire' = w
               [] f.type = "Headers" ->
                    /\ h2c' = IF mine /\ f.end_stream THEN returned_ok ELSE h2c
                    /\ h2_wire' = w
               [] f.type = "Data" /\ ~mine ->
                    /\ h2c' = h2c
                    /\ h2_wire' = w
               [] f.type = "Data" /\ mine ->
                    LET conn_recv_window == h2c.conn_recv_window - f.len
                        update == conn_recv_window < CONNECTION_WINDOW_SIZE \div 2
                        increment == CONNECTION_WINDOW_SIZE - conn_recv_window
                        c == [h2c EXCEPT !.conn_recv_window =
                                 IF update THEN conn_recv_window + increment
                                 ELSE conn_recv_window]
                    IN  /\ h2c' = IF f.end_stream
                                  THEN [c EXCEPT !.pc = "ready", !.result = "Ok"] ELSE c
                        /\ h2_wire' = [w EXCEPT
                              !.peer_conn_allow = IF update THEN @ + increment ELSE @,
                              !.peer_stream_allow = IF update THEN @ + increment ELSE @,
                              !.low_unanswered =
                                  /\ ~update
                                  /\ \/ w.peer_conn_allow < CONNECTION_WINDOW_SIZE \div 2
                                     \/ /\ ~f.end_stream
                                        /\ w.peer_stream_allow <
                                              h2c.local_initial_window_size \div 2]
               [] f.type = "Settings" /\ ~f.ack ->
                    LET c == ApplyResponseSettings(h2c, f.settings) IN
                    /\ h2c' = c
                    /\ h2_wire' = [w EXCEPT !.acks_sent = @ + 1,
                                            !.settings_applied = SettingsInForce(c, f.settings)]
               [] f.type = "GoAway" ->
                    /\ h2c' = [h2c EXCEPT !.pc = "failed", !.result = "ConnectionClosed"]
                    /\ h2_wire' = w
               [] f.type = "RstStream" /\ mine ->
                    /\ h2c' = [h2c EXCEPT !.pc = "failed", !.result = "StreamClosed"]
                    /\ h2_wire' = w
               [] OTHER ->
                    /\ h2c' = h2c
                    /\ h2_wire' = w

\* ---- shared queue actions ------------------------------------------------
QueueInit ==
    /\ shared_queues \in {SharedQueueRegistry_new, NearlyFullRegistry}
    /\ queue_subscriptions = NoSubscriptions
    /\ notifying = NotNotifying
    /\ queue_log = NoQueueLog
    \* no gRPC codec, no Wasm context, no HTTP/3 server, no router, no client
    /\ frame = NoFrame /\ max_size = 0 /\ stage = "start"
    /\ encoded = <<>> /\ result = Pending
    /\ sent = <<>> /\ wire = <<>> /\ buffer = <<>> /\ max_message_size = 0
    /\ decoded = <<>> /\ last_decode = "idle"
    /\ grpc_feature = FALSE /\ http_ctx = NoContext /\ last_call = NoCall
    /\ current_config = 0 /\ connections = NoConnections /\ started = 0
    /\ acquire_calls = NoCalls /\ release_calls = NoCalls
    /\ routes = <<>> /\ router = OptimizedRouter_new /\ finalized = FALSE
    /\ lookup = NoLookup
    /\ h2c = NoClient /\ h2_wire = NoWire
    /\ tick_configs = TickRegistry_new /\ tick_now = 0 /\ callbacks = NoCallbacks
    /\ host_state_lock = NoHolders /\ tick_log = NoTickLog
    /\ http_exec = NoExecution
    /\ h3_stream = NoH3Stream
    /\ route_cache = <<>> /\ snapshot = 0 /\ lookups = NoLookups
    /\ grpc_timeout = NoTimeout
    /\ grpc_message = NoMessage
    /\ grpc_stream = GrpcStreamState_new
    /\ buffering = NoBuffering
    /\ key_routes = <<>> /\ key_cache = <<>> /\ key_lookup = NoKeyLookup
    /\ h3_body = NoH3Body
    /\ h3_request = NoH3Request
    /\ h2_read = NoH2Read

QueueCalled(fn, queue_id, size, rc, before) ==
    [queue_log EXCEPT !.calls = @ + 1, !.fn = fn, !.queue_id = queue_id,
                      !.size = size, !.rc = rc, !.before = before]

\* proxy_register_shared_queue (shared_queue.rs:87-117)
ProxyRegisterSharedQueue ==
    /\ queue_log.calls < MaxQueueCalls
    /\ \E name \in QueueNames, readable \in BOOLEAN, writable \in BOOLEAN :
         IF ~readable
           THEN /\ queue_log' = QueueCalled("register", 0, 0,
                                            PROXY_RESULT_INVALID_MEMORY_ACCESS, None)
                /\ UNCHANGED shared_queues
           ELSE LET r == register(shared_queues, name)
                IN /\ shared_queues' = r.registry
                   /\ queue_log' = QueueCalled("register", r.id, 0,
                                      IF writable THEN PROXY_RESULT_OK
                                      ELSE PROXY_RESULT_INVALID_MEMORY_ACCESS,
                                      shared_queues.queues[r.id])
    /\ UNCHANGED <<queue_subscriptions, notifying>>

\* proxy_resolve_shared_queue (shared_queue.rs:121-159)
ProxyResolveSharedQueue ==
    /\ queue_log.calls < MaxQueueCalls
    /\ \E name \in QueueNames, readable \in BOOLEAN, writable \in BOOLEAN :
         LET id == resolve(shared_queues, name)
         IN queue_log' =
              IF ~readable
                THEN QueueCalled("resolve", 0, 0, PROXY_RESULT_INVALID_MEMORY_ACCESS, None)
              ELSE IF id = None
                THEN QueueCalled("resolve", 0, 0, PROXY_RESULT_NOT_FOUND, None)
              ELSE QueueCalled("resolve", id[1], 0,
                               IF writable THEN PROXY_RESULT_OK
                               ELSE PROXY_RESULT_INVALID_MEMORY_ACCESS,
                               shared_queues.queues[id[1]])
    /\ UNCHANGED <<shared_queues, queue_subscriptions, notifying>>

\* proxy_enqueue_shared_queue (shared_queue.rs:163-195).  queue_log.owed
\* books, for the subscribers of the queue at the time, the on_queue_ready
\* callback a successful enqueue calls for.
ProxyEnqueueSharedQueue ==
    /\ queue_log.calls < MaxQueueCalls
    /\ \E queue_id \in QueueIdArgs, data_size \in DataSizes, readable \in BOOLEAN :
         IF data_size > 0 /\ ~readable
           THEN /\ queue_log' = QueueCalled("enqueue", queue_id, data_size,
                                            PROXY_RESULT_INVALID_MEMORY_ACCESS,
                                            shared_queues.queues[queue_id])
                /\ UNCHANGED shared_queues
           ELSE LET data == IF data_size > 0 THEN data_size ELSE 0
                    e == enqueue(shared_queues, queue_id, data)
                IN /\ shared_queues' = e.registry
                   /\ queue_log' =
                        [QueueCalled("enqueue", queue_id, data_size,
                                     IF e.success THEN PROXY_RESULT_OK
                                     ELSE PROXY_RESULT_NOT_FOUND,
                                     shared_queues.queues[queue_id])
                         EXCEPT !.owed = IF e.success
                                  THEN @ \cup { <<m, queue_id>> :
                                         m \in get_queue_subscribers(queue_subscriptions, queue_id) }
                                  ELSE @]
    /\ UNCHANGED <<queue_subscriptions, notifying>>

\* proxy_dequeue_shared_queue (shared_queue.rs:199-243)
ProxyDequeueSharedQueue ==
    /\ queue_log.calls < MaxQueueCalls
    /\ \E queue_id \in QueueIdArgs, writable \in BOOLEAN :
         LET d == dequeue(shared_queues, queue_id)
         IN /\ shared_queues' = d.registry
            /\ queue_log' = QueueCalled("dequeue", queue_id,
                               IF d.data = None THEN 0 ELSE d.data[1],
                               IF d.data = None THEN PROXY_RESULT_EMPTY
                               ELSE IF writable THEN PROXY_RESULT_OK
                               ELSE PROXY_RESULT_INVALID_MEMORY_ACCESS,
                               shared_queues.queues[queue_id])
    /\ UNCHANGED <<queue_subscriptions, notifying>>

\* subscribe_to_queue (queue_notify.rs:38-55)
SubscribeToQueue ==
    /\ \E module_name \in Modules, queue_id \in QueueIdArgs :
         /\ module_name \notin queue_subscriptions[queue_id]
         /\ queue_subscriptions' =
              [queue_subscriptions EXCEPT ![queue_id] = @ \cup {module_name}]
    /\ UNCHANGED <<shared_queues, notifying, queue_log>>

\* unsubscribe_from_queue (queue_notify.rs:58-67); a module that has left
\* the queue is owed no callback
UnsubscribeFromQueue ==
    /\ \E module_name \in Modules, queue_id \in QueueIdArgs :
         /\ module_name \in queue_subscriptions[queue_id]
         /\ queue_subscriptions' =
              [queue_subscriptions EXCEPT ![queue_id] = @ \ {module_name}]
         /\ queue_log' = [queue_log EXCEPT !.owed = @ \ {<<module_name, queue_id>>}]
    /\ UNCHANGED <<shared_queues, notifying>>

\* notify_queue_subscribers, up to its loop (queue_notify.rs:100-101): a
\* caller outside src/wasm/host/shared_queue.rs passes the queue id
NotifyQueueSubscribers ==
    /\ notifying.subscribers = {}
    /\ \E queue_id \in QueueIdArgs :
         /\ get_queue_subscribers(queue_subscriptions, queue_id) /= {}
         /\ notifying' = [queue_id |-> queue_id,
                          subscribers |-> get_queue_subscribers(queue_subscriptions, queue_id)]
    /\ UNCHANGED <<shared_queues, queue_subscriptions, queue_log>>

\* one turn of the loop of notify_queue_subscribers (queue_notify.rs:103-105):
\* engine.on_queue_ready(module_name, queue_id); the HashSet is walked in
\* any order
DeliverQueueReady ==
    /\ \E module_name \in notifying.subscribers :
         /\ notifying' = [notifying EXCEPT !.subscribers = @ \ {module_name}]
         /\ queue_log' = [queue_log EXCEPT
                            !.owed = @ \ {<<module_name, notifying.queue_id>>}]
    /\ UNCHANGED <<shared_queues, queue_subscriptions>>

\* ---- tick and callback actions ---------------------------------------------
TickInit ==
    /\ tick_configs = TickRegistry_new
    /\ tick_now = 0
    /\ callbacks = NoCallbacks
    /\ host_state_lock = NoHolders
    /\ tick_log = NoTickLog
    \* nothing else is running
    /\ frame = NoFrame /\ max_size = 0 /\ stage = "start"
    /\ encoded = <<>> /\ result = Pending
    /\ sent = <<>> /\ wire = <<>> /\ buffer = <<>> /\ max_message_size = 0
    /\ decoded = <<>> /\ last_decode = "idle"
    /\ grpc_feature = FALSE /\ http_ctx = NoContext /\ last_call = NoCall
    /\ current_config = 0 /\ connections = NoConnections /\ started = 0
    /\ acquire_calls = NoCalls /\ release_calls = NoCalls
    /\ routes = <<>> /\ router = OptimizedRouter_new /\ finalized = FALSE
    /\ lookup = NoLookup
    /\ h2c = NoClient /\ h2_wire = NoWire
    /\ shared_queues = SharedQueueRegistry_new /\ queue_subscriptions = NoSubscriptions
    /\ notifying = NotNotifying /\ queue_log = NoQueueLog
    /\ http_exec = NoExecution
    /\ h3_stream = NoH3Stream
    /\ route_cache = <<>> /\ snapshot = 0 /\ lookups = NoLookups
    /\ grpc_timeout = NoTimeout
    /\ grpc_message = NoMessage
    /\ grpc_stream = GrpcStreamState_new
    /\ buffering = NoBuffering
    /\ key_routes = <<>> /\ key_cache = <<>> /\ key_lookup = NoKeyLookup
    /\ h3_body = NoH3Body
    /\ h3_request = NoH3Request
    /\ h2_read = NoH2Read

\* time passes
AdvanceClock ==
    /\ tick_now < MaxTickTime
    /\ tick_now' = tick_now + 1
    /\ UNCHANGED <<tick_configs, callbacks, host_state_lock, tick_log>>

\* register_tick (tick_manager.rs:47-73), called for a module from inside
\* one of its own callbacks (proxy_set_tick_period_milliseconds)
RegisterTick ==
    /\ \E t \in CallbackThreads, period_ms \in TickPeriods :
         /\ callbacks[t].running /= None
         /\ LET module_name == callbacks[t].running[1]
            IN /\ tick_configs' = register_tick(tick_configs, module_name, period_ms, tick_now)
               /\ tick_log' = [tick_log EXCEPT !.set_zero =
                                 IF period_ms = 0 THEN @ \cup {module_name}
                                 ELSE @ \ {module_name}]
    /\ UNCHANGED <<tick_now, callbacks, host_state_lock>>

\* process_ticks, its first statement (tick_manager.rs:102-103)
GetDueTicks(w) ==
    /\ callbacks[w] = Idle
    /\ LET g == get_due_ticks(tick_configs, tick_now)
       IN /\ g.due_modules /= {}
          /\ tick_configs' = g.configs
          /\ callbacks' = [callbacks EXCEPT ![w] =
                             [kind |-> "on_tick", pending |-> g.due_modules, running |-> None]]
    /\ UNCHANGED <<tick_now, host_state_lock, tick_log>>

\* notify_queue_subscribers, its first statement (queue_notify.rs:100-101),
\* for a queue with any set of subscribers
GetQueueSubscribers ==
    /\ callbacks["notify"] = Idle
    /\ \E subscribers \in (SUBSET Modules) \ {{}} :
         callbacks' = [callbacks EXCEPT !["notify"] =
                         [kind |-> "on_queue_ready", pending |-> subscribers, running |-> None]]
    /\ UNCHANGED <<tick_configs, tick_now, host_state_lock, tick_log>>

\* the request pipeline reaches a hook of a module
RequestReachesHook ==
    /\ callbacks["request"] = Idle
    /\ \E module_name \in Modules :
         callbacks' = [callbacks EXCEPT !["request"] =
                         [kind |-> "request_hook", pending |-> {module_name}, running |-> None]]
    /\ UNCHANGED <<tick_configs, tick_now, host_state_lock, tick_log>>

\* a thread enters the callback of one of the modules it has to call
EnterCallback(t, module_name) ==
    /\ callbacks[t].running = None
    /\ module_name \in callbacks[t].pending
    /\ context_free(host_state_lock, module_name)
    /\ callbacks' = [callbacks EXCEPT ![t].pending = @ \ {module_name},
                                      ![t].running = Some(module_name)]
    /\ host_state_lock' = [host_state_lock EXCEPT ![module_name] = Some(t)]

\* process_ticks, one turn of its loop (tick_manager.rs:105-107):
\* engine.on_tick(module_name)
OnTick(w) ==
    /\ \E module_name \in Modules :
         /\ EnterCallback(w, module_name)
         /\ tick_log' = [tick_log EXCEPT !.ticked_after_zero =
                           IF module_name \in tick_log.set_zero
                             THEN @ \cup {module_name} ELSE @]
    /\ UNCHANGED <<tick_configs, tick_now>>

\* notify_queue_subscribers, one turn of its loop (queue_notify.rs:103-105):
\* engine.on_queue_ready(module_name, queue_id)
OnQueueReady ==
    /\ \E module_name \in Modules : EnterCallback("notify", module_name)
    /\ UNCHANGED <<tick_configs, tick_now, tick_log>>

\* the request pipeline enters the hook
RequestHook ==
    /\ \E module_name \in Modules : EnterCallback("request", module_name)
    /\ UNCHANGED <<tick_configs, tick_now, tick_log>>

\* the callback returns
CallbackReturns(t) ==
    /\ callbacks[t].running /= None
    /\ host_state_lock' = [host_state_lock EXCEPT ![callbacks[t].running[1]] =
                             IF @ = Some(t) THEN None ELSE @]
    /\ callbacks' = [callbacks EXCEPT ![t] =
                       IF @.pending = {} THEN Idle ELSE [@ EXCEPT !.running = None]]
    /\ UNCHANGED <<tick_configs, tick_now, tick_log>>

\* ---- HTTP call executor actions ----------------------------------------------
\* execute_http_call_safe is called for a pending call: the upstream address
\* is an IP literal or not, the upstream is reached over TLS or not, and the
\* upstream would answer with one of UpstreamResponses
ExecInit ==
    /\ http_exec \in
         { [NoExecution EXCEPT !.pc = "connect", !.address_parses = a,
                               !.use_tls = t, !.upstream = u] :
             a \in BOOLEAN, t \in BOOLEAN, u \in UpstreamResponses }
    \* nothing else is running
    /\ frame = NoFrame /\ max_size = 0 /\ stage = "start"
    /\ encoded = <<>> /\ result = Pending
    /\ sent = <<>> /\ wire = <<>> /\ buffer = <<>> /\ max_message_size = 0
    /\ decoded = <<>> /\ last_decode = "idle"
    /\ grpc_feature = FALSE /\ http_ctx = NoContext /\ last_call = NoCall
    /\ current_config = 0 /\ connections = NoConnections /\ started = 0
    /\ acquire_calls = NoCalls /\ release_calls = NoCalls
    /\ routes = <<>> /\ router = OptimizedRouter_new /\ finalized = FALSE
    /\ lookup = NoLookup
    /\ h2c = NoClient /\ h2_wire = NoWire
    /\ shared_queues = SharedQueueRegistry_new /\ queue_subscriptions = NoSubscriptions
    /\ notifying = NotNotifying /\ queue_log = NoQueueLog
    /\ tick_configs = TickRegistry_new /\ tick_now = 0 /\ callbacks = NoCallbacks
    /\ host_state_lock = NoHolders /\ tick_log = NoTickLog
    /\ h3_stream = NoH3Stream
    /\ route_cache = <<>> /\ snapshot = 0 /\ lookups = NoLookups
    /\ grpc_timeout = NoTimeout
    /\ grpc_message = NoMessage
    /\ grpc_stream = GrpcStreamState_new
    /\ buffering = NoBuffering
    /\ key_routes = <<>> /\ key_cache = <<>> /\ key_lookup = NoKeyLookup
    /\ h3_body = NoH3Body
    /\ h3_request = NoH3Request
    /\ h2_read = NoH2Read

ExecFails(error) ==
    http_exec' = [http_exec EXCEPT !.pc = "executed", !.executed = ExecErr(error)]

\* execute_http_call (http_executor.rs:18-41): parse the address, connect
ExecConnect ==
    /\ http_exec.pc = "connect"
    /\ IF ~http_exec.address_parses THEN ExecFails("Invalid address")
       ELSE \E connected \in BOOLEAN :
              IF ~connected THEN ExecFails("Connection failed")
              ELSE http_exec' = [http_exec EXCEPT !.pc =
                                   IF http_exec.use_tls THEN "tls" ELSE "write"]

\* execute_https_request up to the write (http_executor.rs:66-94)
ExecTls ==
    /\ http_exec.pc = "tls"
    /\ \E outcome \in {"Invalid server name", "TLS handshake failed", "TLS write failed", "written"} :
         IF outcome = "written"
           THEN http_exec' = [http_exec EXCEPT !.pc = "tls_read"]
           ELSE ExecFails(outcome)

\* execute_http_request up to the read (http_executor.rs:50-54)
ExecWrite ==
    /\ http_exec.pc = "write"
    /\ \E written \in BOOLEAN :
         IF written THEN http_exec' = [http_exec EXCEPT !.pc = "read"]
         ELSE ExecFails("Write failed")

\* the bytes one read() call returns: some of what the upstream has left
ReadSizes == 1..(Len(http_exec.upstream) - Len(http_exec.response_data))

\* parse_http_response (http_executor.rs:182-199): one read() of the loop,
\* and after the loop parse_http_response_from_bytes
ExecRead ==
    /\ http_exec.pc = "read"
    /\ \/ \E n \in ReadSizes :
            http_exec' = [http_exec EXCEPT !.response_data =
                            Take(http_exec.upstream, Len(@) + n)]
       \/ \E ends \in {"Ok(0)", "WouldBlock", "TimedOut"} :
            http_exec' = [http_exec EXCEPT
                            !.pc = "executed",
                            !.executed = parse_http_response_from_bytes(http_exec.response_data)]
       \/ ExecFails("Read failed")

\* execute_https_request, its read loop (http_executor.rs:97-131): the loop
\* also ends once the response read so far looks complete
ExecTlsRead ==
    /\ http_exec.pc = "tls_read"
    /\ \/ \E n \in ReadSizes :
            http_exec' = [http_exec EXCEPT !.response_data =
                            Take(http_exec.upstream, Len(@) + n)]
       \/ \E ends \in {"Ok(0)", "WouldBlock", "complete"} :
            /\ ends = "complete" => FindBoundary(http_exec.response_data) /= 0
            /\ http_exec' = [http_exec EXCEPT
                            !.pc = "executed",
                            !.executed = parse_http_response_from_bytes(http_exec.response_data)]
       \/ ExecFails("TLS read failed")

\* execute_http_call_safe (http_executor.rs:263-285)
ExecAnswer ==
    /\ http_exec.pc = "executed"
    /\ http_exec' = [http_exec EXCEPT !.pc = "answered",
                                      !.response = execute_http_call_safe(http_exec.executed)]

\* ---- HTTP/3 response sending actions -----------------------------------------
\* handle_request has decided the response of a request (http3_server.rs:
\* 207-332); the stream may be blocked at this moment
H3SendInit ==
    /\ h3_stream \in
         { [NoH3Stream EXCEPT !.pc = "respond", !.status = st, !.has_body = b, !.blocked = k] :
             st \in H3Statuses, b \in BOOLEAN, k \in BOOLEAN }
    \* nothing else is running
    /\ frame = NoFrame /\ max_size = 0 /\ stage = "start"
    /\ encoded = <<>> /\ result = Pending
    /\ sent = <<>> /\ wire = <<>> /\ buffer = <<>> /\ max_message_size = 0
    /\ decoded = <<>> /\ last_decode = "idle"
    /\ grpc_feature = FALSE /\ http_ctx = NoContext /\ last_call = NoCall
    /\ current_config = 0 /\ connections = NoConnections /\ started = 0
    /\ acquire_calls = NoCalls /\ release_calls = NoCalls
    /\ routes = <<>> /\ router = OptimizedRouter_new /\ finalized = FALSE
    /\ lookup = NoLookup
    /\ h2c = NoClient /\ h2_wire = NoWire
    /\ shared_queues = SharedQueueRegistry_new /\ queue_subscriptions = NoSubscriptions
    /\ notifying = NotNotifying /\ queue_log = NoQueueLog
    /\ tick_configs = TickRegistry_new /\ tick_now = 0 /\ callbacks = NoCallbacks
    /\ host_state_lock = NoHolders /\ tick_log = NoTickLog
    /\ http_exec = NoExecution
    /\ route_cache = <<>> /\ snapshot = 0 /\ lookups = NoLookups
    /\ grpc_timeout = NoTimeout
    /\ grpc_message = NoMessage
    /\ grpc_stream = GrpcStreamState_new
    /\ buffering = NoBuffering
    /\ key_routes = <<>> /\ key_cache = <<>> /\ key_lookup = NoKeyLookup
    /\ h3_body = NoH3Body
    /\ h3_request = NoH3Request
    /\ h2_read = NoH2Read

\* the peer's flow control lets the stream be written again
StreamUnblocks ==
    /\ h3_stream.blocked
    /\ h3_stream' = [h3_stream EXCEPT !.blocked = FALSE]

\* the stream gets blocked while the request is being handled
StreamBlocks ==
    /\ h3_stream.pc = "respond"
    /\ ~h3_stream.blocked
    /\ h3_stream' = [h3_stream EXCEPT !.blocked = TRUE]

\* Http3Handler::send_response (http3_server.rs:339-394), called by
\* handle_request; every path returns Ok(()) and handle_request returns
SendResponse ==
    /\ h3_stream.pc = "respond"
    /\ \E headers_outcome \in (IF h3_stream.blocked THEN {"StreamBlocked"} ELSE {"Ok", "error"}),
          body_outcome \in {"Ok", "Done", "error"} :
         LET after_headers == send_headers(h3_stream, headers_outcome)
             after_body ==
               IF after_headers.headers_written /\ h3_stream.has_body
                 THEN send_body(after_headers, body_outcome)
                 ELSE after_headers
         IN h3_stream' = IF after_body.pc = "respond"
                           THEN [after_body EXCEPT !.pc = "handled"]
                           ELSE after_body

\* process_events of a later poll round: flush_partial_responses
\* (http3_server.rs:652-680)
FlushPartialResponses ==
    /\ h3_stream.pc = "handled"
    /\ \E body_outcome \in {"Ok", "Done", "error"} :
         h3_stream' =
           [(IF ~h3_stream.partial_response THEN h3_stream
             ELSE IF body_outcome = "Ok"
               THEN [h3_stream EXCEPT !.body_written = TRUE, !.partial_response = FALSE]
             ELSE IF body_outcome = "Done" THEN h3_stream
             ELSE [h3_stream EXCEPT !.partial_response = FALSE, !.dead = TRUE])
            EXCEPT !.polls = IF @ < MaxH3Polls THEN @ + 1 ELSE @]

\* ---- Route cache actions -------------------------------------------------------
CacheInit ==
    /\ route_cache = <<>> /\ snapshot = 0 /\ lookups = NoLookups
    \* nothing else is running
    /\ frame = NoFrame /\ max_size = 0 /\ stage = "start"
    /\ encoded = <<>> /\ result = Pending
    /\ sent = <<>> /\ wire = <<>> /\ buffer = <<>> /\ max_message_size = 0
    /\ decoded = <<>> /\ last_decode = "idle"
    /\ grpc_feature = FALSE /\ http_ctx = NoContext /\ last_call = NoCall
    /\ current_config = 0 /\ connections = NoConnections /\ started = 0
    /\ acquire_calls = NoCalls /\ release_calls = NoCalls
    /\ routes = <<>> /\ router = OptimizedRouter_new /\ finalized = FALSE
    /\ lookup = NoLookup
    /\ h2c = NoClient /\ h2_wire = NoWire
    /\ shared_queues = SharedQueueRegistry_new /\ queue_subscriptions = NoSubscriptions
    /\ notifying = NotNotifying /\ queue_log = NoQueueLog
    /\ tick_configs = TickRegistry_new /\ tick_now = 0 /\ callbacks = NoCallbacks
    /\ host_state_lock = NoHolders /\ tick_log = NoTickLog
    /\ http_exec = NoExecution
    /\ h3_stream = NoH3Stream
    /\ grpc_timeout = NoTimeout
    /\ grpc_message = NoMessage
    /\ grpc_stream = GrpcStreamState_new
    /\ buffering = NoBuffering
    /\ key_routes = <<>> /\ key_cache = <<>> /\ key_lookup = NoKeyLookup
    /\ h3_body = NoH3Body
    /\ h3_request = NoH3Request
    /\ h2_read = NoH2Read

\* a request starts: the worker takes a handle on the published snapshot
StartLookup(w) ==
    /\ lookups[w].pc \in {"idle", "answered"}
    /\ lookups[w].count < MaxLookups
    /\ \E key \in CacheKeys :
         lookups' = [lookups EXCEPT ![w] =
                       [NoLookups[w] EXCEPT !.pc = "started", !.handle = snapshot,
                                            !.key = key, !.count = lookups[w].count + 1]]
    /\ UNCHANGED <<route_cache, snapshot>>

\* lookup step 1, OptimizedRouter::try_cache (routing/mod.rs:641-643)
TryCache(w) ==
    /\ lookups[w].pc = "started"
    /\ LET got == RouteCache_get(route_cache, lookups[w].key)
       IN /\ route_cache' = got.cache
          /\ lookups' = [lookups EXCEPT ![w] =
               IF got.hit = None THEN [@ EXCEPT !.pc = "miss"]
               ELSE [@ EXCEPT !.pc = "answered", !.answer = Some(got.hit[1].route_idx),
                              !.from_cache = TRUE,
                              !.computed_against = got.hit[1].computed_against,
                              !.answered_in = snapshot]]
    /\ UNCHANGED snapshot

\* lookup steps 2-5: the result is computed against the worker's snapshot
\* handle and inserted, OptimizedRouter::cache_result (routing/mod.rs:646-648)
CacheResult(w) ==
    /\ lookups[w].pc = "miss"
    /\ LET route_idx == MatchAgainst(lookups[w].handle, lookups[w].key)
       IN /\ route_cache' = RouteCache_put(route_cache, lookups[w].key, route_idx,
                                           lookups[w].handle)
          /\ lookups' = [lookups EXCEPT ![w] =
               [@ EXCEPT !.pc = "answered", !.answer = Some(route_idx),
                         !.computed_against = lookups[w].handle,
                         !.answered_in = snapshot]]
    /\ UNCHANGED snapshot

\* a configuration swap: the new snapshot is published and the cache is
\* cleared at that moment, OptimizedRouter::clear_cache (routing/mod.rs:651-653)
SwapSnapshot ==
    /\ snapshot < MaxCacheSwaps
    /\ snapshot' = snapshot + 1
    /\ route_cache' = RouteCache_clear(route_cache)
    /\ UNCHANGED lookups

\* ---- grpc-timeout actions ------------------------------------------------
\* a duration to send
TimeoutInit ==
    /\ grpc_timeout \in
         { [NoTimeout EXCEPT !.pc = "duration", !.duration = Duration(secs, nanos)] :
             secs \in TimeoutSecs, nanos \in TimeoutNanos }
    \* nothing else is running
    /\ routes = <<>>
    /\ router = OptimizedRouter_new
    /\ finalized = FALSE
    /\ lookup = NoLookup
    /\ h2c = NoClient /\ h2_wire = NoWire
    /\ shared_queues = SharedQueueRegistry_new /\ queue_subscriptions = NoSubscriptions
    /\ notifying = NotNotifying /\ queue_log = NoQueueLog
    /\ frame = NoFrame /\ max_size = 0 /\ stage = "start"
    /\ encoded = <<>> /\ result = Pending
    /\ sent = <<>> /\ wire = <<>> /\ buffer = <<>> /\ max_message_size = 0
    /\ decoded = <<>> /\ last_decode = "idle"
    /\ grpc_feature = FALSE /\ http_ctx = NoContext /\ last_call = NoCall
    /\ current_config = 0 /\ connections = NoConnections /\ started = 0
    /\ acquire_calls = NoCalls /\ release_calls = NoCalls
    /\ tick_configs = TickRegistry_new /\ tick_now = 0 /\ callbacks = NoCallbacks
    /\ host_state_lock = NoHolders /\ tick_log = NoTickLog
    /\ http_exec = NoExecution
    /\ h3_stream = NoH3Stream
    /\ route_cache = <<>> /\ snapshot = 0 /\ lookups = NoLookups
    /\ grpc_message = NoMessage
    /\ grpc_stream = GrpcStreamState_new
    /\ buffering = NoBuffering
    /\ key_routes = <<>> /\ key_cache = <<>> /\ key_lookup = NoKeyLookup
    /\ h3_body = NoH3Body
    /\ h3_request = NoH3Request
    /\ h2_read = NoH2Read

\* the sender writes the header value
FormatGrpcTimeout ==
    /\ grpc_timeout.pc = "duration"
    /\ grpc_timeout' = [grpc_timeout EXCEPT !.pc = "formatted",
                          !.header = format_grpc_timeout(grpc_timeout.duration)]

\* the receiver reads it
ParseGrpcTimeout ==
    /\ grpc_timeout.pc = "formatted"
    /\ grpc_timeout' = [grpc_timeout EXCEPT !.pc = "parsed",
                          !.parsed = parse_grpc_timeout(grpc_timeout.header)]

\* ---- grpc-message actions -------------------------------------------------
\* a status with a message (GrpcStatus::error)
MessageInit ==
    /\ grpc_message \in
         { [NoMessage EXCEPT !.pc = "status", !.message = m] : m \in StatusMessages }
    \* nothing else is running
    /\ routes = <<>>
    /\ router = OptimizedRouter_new
    /\ finalized = FALSE
    /\ lookup = NoLookup
    /\ h2c = NoClient /\ h2_wire = NoWire
    /\ shared_queues = SharedQueueRegistry_new /\ queue_subscriptions = NoSubscriptions
    /\ notifying = NotNotifying /\ queue_log = NoQueueLog
    /\ frame = NoFrame /\ max_size = 0 /\ stage = "start"
    /\ encoded = <<>> /\ result = Pending
    /\ sent = <<>> /\ wire = <<>> /\ buffer = <<>> /\ max_message_size = 0
    /\ decoded = <<>> /\ last_decode = "idle"
    /\ grpc_feature = FALSE /\ http_ctx = NoContext /\ last_call = NoCall
    /\ current_config = 0 /\ connections = NoConnections /\ started = 0
    /\ acquire_calls = NoCalls /\ release_calls = NoCalls
    /\ tick_configs = TickRegistry_new /\ tick_now = 0 /\ callbacks = NoCallbacks
    /\ host_state_lock = NoHolders /\ tick_log = NoTickLog
    /\ http_exec = NoExecution
    /\ h3_stream = NoH3Stream
    /\ route_cache = <<>> /\ snapshot = 0 /\ lookups = NoLookups
    /\ grpc_timeout = NoTimeout
    /\ grpc_stream = GrpcStreamState_new
    /\ buffering = NoBuffering
    /\ key_routes = <<>> /\ key_cache = <<>> /\ key_lookup = NoKeyLookup
    /\ h3_body = NoH3Body
    /\ h3_request = NoH3Request
    /\ h2_read = NoH2Read

\* the sender writes the grpc-message trailer
EncodeMessage ==
    /\ grpc_message.pc = "status"
    /\ grpc_message' = [grpc_message EXCEPT !.pc = "encoded",
                          !.encoded = encoded_message(grpc_message.message)]

\* the receiver decodes it
DecodeMessage ==
    /\ grpc_message.pc = "encoded"
    /\ grpc_message' = [grpc_message EXCEPT !.pc = "decoded",
                          !.decoded = decode_message(grpc_message.encoded)]

\* ---- gRPC stream state actions ----------------------------------------------
StreamInit ==
    /\ grpc_stream = GrpcStreamState_new
    \* nothing else is running
    /\ routes = <<>>
    /\ router = OptimizedRouter_new
    /\ finalized = FALSE
    /\ lookup = NoLookup
    /\ h2c = NoClient /\ h2_wire = NoWire
    /\ shared_queues = SharedQueueRegistry_new /\ queue_subscriptions = NoSubscriptions
    /\ notifying = NotNotifying /\ queue_log = NoQueueLog
    /\ frame = NoFrame /\ max_size = 0 /\ stage = "start"
    /\ encoded = <<>> /\ result = Pending
    /\ sent = <<>> /\ wire = <<>> /\ buffer = <<>> /\ max_message_size = 0
    /\ decoded = <<>> /\ last_decode = "idle"
    /\ grpc_feature = FALSE /\ http_ctx = NoContext /\ last_call = NoCall
    /\ current_config = 0 /\ connections = NoConnections /\ started = 0
    /\ acquire_calls = NoCalls /\ release_calls = NoCalls
    /\ tick_configs = TickRegistry_new /\ tick_now = 0 /\ callbacks = NoCallbacks
    /\ host_state_lock = NoHolders /\ tick_log = NoTickLog
    /\ http_exec = NoExecution
    /\ h3_stream = NoH3Stream
    /\ route_cache = <<>> /\ snapshot = 0 /\ lookups = NoLookups
    /\ grpc_timeout = NoTimeout
    /\ grpc_message = NoMessage
    /\ buffering = NoBuffering
    /\ key_routes = <<>> /\ key_cache = <<>> /\ key_lookup = NoKeyLookup
    /\ h3_body = NoH3Body
    /\ h3_request = NoH3Request
    /\ h2_read = NoH2Read

\* a request frame arrives
OnRequestFrame ==
    /\ grpc_stream.request_frames < MaxStreamFrames
    /\ grpc_stream' = on_request_frame(grpc_stream)

\* a response frame is sent
OnResponseFrame ==
    /\ grpc_stream.response_frames < MaxStreamFrames
    /\ grpc_stream' = on_response_frame(grpc_stream)

\* on_client_done (stream.rs:105-108)
OnClientDone ==
    /\ ~grpc_stream.client_done
    /\ grpc_stream' = [grpc_stream EXCEPT !.client_done = TRUE]

\* on_server_done (stream.rs:131-134)
OnServerDone ==
    /\ ~grpc_stream.server_done
    /\ grpc_stream' = [grpc_stream EXCEPT !.server_done = TRUE]

\* on_trailers_sent (stream.rs:137-141)
OnTrailersSent ==
    /\ ~grpc_stream.trailers_sent
    /\ grpc_stream' = [grpc_stream EXCEPT !.trailers_sent = TRUE, !.server_done = TRUE]

\* ---- buffering actions --------------------------------------------------------
\* a route's buffering configuration
BufferingInit ==
    /\ buffering \in
         { [NoBuffering EXCEPT !.pc = "configured", !.config = BufferingConfig(mode, threshold)] :
             mode \in BufferingModes, threshold \in AdaptiveThresholds }
    \* nothing else is running
    /\ routes = <<>>
    /\ router = OptimizedRouter_new
    /\ finalized = FALSE
    /\ lookup = NoLookup
    /\ h2c = NoClient /\ h2_wire = NoWire
    /\ shared_queues = SharedQueueRegistry_new /\ queue_subscriptions = NoSubscriptions
    /\ notifying = NotNotifying /\ queue_log = NoQueueLog
    /\ frame = NoFrame /\ max_size = 0 /\ stage = "start"
    /\ encoded = <<>> /\ result = Pending
    /\ sent = <<>> /\ wire = <<>> /\ buffer = <<>> /\ max_message_size = 0
    /\ decoded = <<>> /\ last_decode = "idle"
    /\ grpc_feature = FALSE /\ http_ctx = NoContext /\ last_call = NoCall
    /\ current_config = 0 /\ connections = NoConnections /\ started = 0
    /\ acquire_calls = NoCalls /\ release_calls = NoCalls
    /\ tick_configs = TickRegistry_new /\ tick_now = 0 /\ callbacks = NoCallbacks
    /\ host_state_lock = NoHolders /\ tick_log = NoTickLog
    /\ http_exec = NoExecution
    /\ h3_stream = NoH3Stream
    /\ route_cache = <<>> /\ snapshot = 0 /\ lookups = NoLookups
    /\ grpc_timeout = NoTimeout
    /\ grpc_message = NoMessage
    /\ grpc_stream = GrpcStreamState_new
    /\ key_routes = <<>> /\ key_cache = <<>> /\ key_lookup = NoKeyLookup
    /\ h3_body = NoH3Body
    /\ h3_request = NoH3Request
    /\ h2_read = NoH2Read

\* the upstream's response headers arrive, with or without a Content-Length
ResponseHeaders ==
    /\ buffering.pc \in {"configured", "decided"}
    /\ \E content_length \in ContentLengths :
          buffering' = [buffering EXCEPT !.pc = "headers", !.content_length = content_length,
                                         !.buffered = FALSE]

\* the proxy decides how to forward the body
ShouldBuffer ==
    /\ buffering.pc = "headers"
    /\ buffering' = [buffering EXCEPT !.pc = "decided",
                        !.buffered = should_buffer(buffering.config, buffering.content_length)]

\* ---- route cache key actions ---------------------------------------------------
\* a snapshot with its routes and an empty cache (OptimizedRouter::new)
KeyInit ==
    /\ key_routes \in UNION { [1..n -> KeyRouteConditions] : n \in 1..MaxKeyRoutes }
    /\ key_cache = <<>>
    /\ key_lookup = NoKeyLookup
    \* nothing else is running
    /\ routes = <<>>
    /\ router = OptimizedRouter_new
    /\ finalized = FALSE
    /\ lookup = NoLookup
    /\ h2c = NoClient /\ h2_wire = NoWire
    /\ shared_queues = SharedQueueRegistry_new /\ queue_subscriptions = NoSubscriptions
    /\ notifying = NotNotifying /\ queue_log = NoQueueLog
    /\ frame = NoFrame /\ max_size = 0 /\ stage = "start"
    /\ encoded = <<>> /\ result = Pending
    /\ sent = <<>> /\ wire = <<>> /\ buffer = <<>> /\ max_message_size = 0
    /\ decoded = <<>> /\ last_decode = "idle"
    /\ grpc_feature = FALSE /\ http_ctx = NoContext /\ last_call = NoCall
    /\ current_config = 0 /\ connections = NoConnections /\ started = 0
    /\ acquire_calls = NoCalls /\ release_calls = NoCalls
    /\ tick_configs = TickRegistry_new /\ tick_now = 0 /\ callbacks = NoCallbacks
    /\ host_state_lock = NoHolders /\ tick_log = NoTickLog
    /\ http_exec = NoExecution
    /\ h3_stream = NoH3Stream
    /\ route_cache = <<>> /\ snapshot = 0 /\ lookups = NoLookups
    /\ grpc_timeout = NoTimeout
    /\ grpc_message = NoMessage
    /\ grpc_stream = GrpcStreamState_new
    /\ buffering = NoBuffering
    /\ h3_body = NoH3Body
    /\ h3_request = NoH3Request
    /\ h2_read = NoH2Read

\* one lookup: probe the cache with the request's key (try_cache); on a miss
\* run the full matching and insert its result (cache_result)
CachedLookup ==
    /\ key_lookup.count < MaxKeyLookups
    /\ \E request \in KeyRequests :
         LET got == RouteCache_get(key_cache, KeyOf(request))
             matched == FullMatch(key_routes, request)
         IN  IF got.hit # None
             THEN /\ key_cache' = got.cache
                  /\ key_lookup' = [count |-> key_lookup.count + 1, request |-> request,
                                    answer |-> got.hit[1].route_idx, from_cache |-> TRUE]
             ELSE /\ key_cache' = RouteCache_put(got.cache, KeyOf(request), matched, 0)
                  /\ key_lookup' = [count |-> key_lookup.count + 1, request |-> request,
                                    answer |-> matched, from_cache |-> FALSE]
    /\ UNCHANGED key_routes

\* ---- HTTP/3 response body actions -------------------------------------------------
\* handle_request answers with a body; the headers have gone out without fin
H3BodyInit ==
    /\ h3_body \in { [NoH3Body EXCEPT !.pc = "headers_sent", !.body = body] :
                       body \in ResponseBodies }
    \* nothing else is running
    /\ routes = <<>>
    /\ router = OptimizedRouter_new
    /\ finalized = FALSE
    /\ lookup = NoLookup
    /\ h2c = NoClient /\ h2_wire = NoWire
    /\ shared_queues = SharedQueueRegistry_new /\ queue_subscriptions = NoSubscriptions
    /\ notifying = NotNotifying /\ queue_log = NoQueueLog
    /\ frame = NoFrame /\ max_size = 0 /\ stage = "start"
    /\ encoded = <<>> /\ result = Pending
    /\ sent = <<>> /\ wire = <<>> /\ buffer = <<>> /\ max_message_size = 0
    /\ decoded = <<>> /\ last_decode = "idle"
    /\ grpc_feature = FALSE /\ http_ctx = NoContext /\ last_call = NoCall
    /\ current_config = 0 /\ connections = NoConnections /\ started = 0
    /\ acquire_calls = NoCalls /\ release_calls = NoCalls
    /\ tick_configs = TickRegistry_new /\ tick_now = 0 /\ callbacks = NoCallbacks
    /\ host_state_lock = NoHolders /\ tick_log = NoTickLog
    /\ http_exec = NoExecution
    /\ h3_stream = NoH3Stream
    /\ route_cache = <<>> /\ snapshot = 0 /\ lookups = NoLookups
    /\ grpc_timeout = NoTimeout
    /\ grpc_message = NoMessage
    /\ grpc_stream = GrpcStreamState_new
    /\ buffering = NoBuffering
    /\ key_routes = <<>> /\ key_cache = <<>> /\ key_lookup = NoKeyLookup
    /\ h3_request = NoH3Request
    /\ h2_read = NoH2Read

\* send_response, the body part (http3_server.rs:378-391)
SendResponseBody ==
    /\ h3_body.pc = "headers_sent"
    /\ \/ \E capacity \in 0..MaxCapacity :
            LET r == h3_send_body(h3_body, h3_body.body, TRUE, capacity)
            IN  h3_body' =
                  IF r.result = "Ok" THEN [r.stream EXCEPT !.pc = "handled"]
                  ELSE [h3_body EXCEPT !.pc = "handled",
                          !.partial_responses = Some([body |-> h3_body.body, written |-> 0])]
       \/ h3_body' = [h3_body EXCEPT !.pc = "handled", !.failed = TRUE]

\* flush_partial_responses (http3_server.rs:652-684) for the stream
FlushBody ==
    /\ h3_body.pc = "handled"
    /\ h3_body.partial_responses # None
    /\ LET body == h3_body.partial_responses[1].body
           written == h3_body.partial_responses[1].written
       IN  IF written < Len(body)
           THEN \/ \E capacity \in 0..MaxCapacity :
                     LET r == h3_send_body(h3_body, Drop(body, written), TRUE, capacity)
                     IN  h3_body' =
                           IF r.result = "Ok"
                           THEN [r.stream EXCEPT !.partial_responses =
                                    IF written + r.sent >= Len(body) THEN None
                                    ELSE Some([body |-> body, written |-> written + r.sent])]
                           ELSE h3_body
                \/ h3_body' = [h3_body EXCEPT !.partial_responses = None, !.failed = TRUE]
           ELSE h3_body' = [h3_body EXCEPT !.partial_responses = None]

\* ---- HTTP/3 request event actions ---------------------------------------------
\* a client sends a request whose body arrives in some split
H3RequestInit ==
    /\ h3_request \in
         UNION { { [NoH3Request EXCEPT !.body = body, !.events = RequestEvents(chunks)] :
                     chunks \in ChunkSplits(body) } :
                   body \in ClientBodies }
    \* nothing else is running
    /\ routes = <<>>
    /\ router = OptimizedRouter_new
    /\ finalized = FALSE
    /\ lookup = NoLookup
    /\ h2c = NoClient /\ h2_wire = NoWire
    /\ shared_queues = SharedQueueRegistry_new /\ queue_subscriptions = NoSubscriptions
    /\ notifying = NotNotifying /\ queue_log = NoQueueLog
    /\ frame = NoFrame /\ max_size = 0 /\ stage = "start"
    /\ encoded = <<>> /\ result = Pending
    /\ sent = <<>> /\ wire = <<>> /\ buffer = <<>> /\ max_message_size = 0
    /\ decoded = <<>> /\ last_decode = "idle"
    /\ grpc_feature = FALSE /\ http_ctx = NoContext /\ last_call = NoCall
    /\ current_config = 0 /\ connections = NoConnections /\ started = 0
    /\ acquire_calls = NoCalls /\ release_calls = NoCalls
    /\ tick_configs = TickRegistry_new /\ tick_now = 0 /\ callbacks = NoCallbacks
    /\ host_state_lock = NoHolders /\ tick_log = NoTickLog
    /\ http_exec = NoExecution
    /\ h3_stream = NoH3Stream
    /\ route_cache = <<>> /\ snapshot = 0 /\ lookups = NoLookups
    /\ grpc_timeout = NoTimeout
    /\ grpc_message = NoMessage
    /\ grpc_stream = GrpcStreamState_new
    /\ buffering = NoBuffering
    /\ key_routes = <<>> /\ key_cache = <<>> /\ key_lookup = NoKeyLookup
    /\ h3_body = NoH3Body
    /\ h2_read = NoH2Read

\* one process_h3_events call (http3_server.rs:141-202): poll the events that
\* have arrived, then handle_request for every collected request
ProcessH3Events ==
    /\ h3_request.events # <<>>
    /\ \E arrived \in 1..Len(h3_request.events) :
          h3_request' =
             [h3_request EXCEPT
                !.events = Drop(@, arrived),
                !.rounds = @ + 1,
                !.handled = @ \o poll_events(Take(h3_request.events, arrived), <<>>, None)]

\* ---- HTTP/2 client read buffer actions ---------------------------------------
\* a connected client whose peer sends one to MaxPeerFrames frames
H2ReadInit ==
    /\ h2_read \in { H2Read_new(PeerFrameSeq(lens)) : lens \in PeerStreams }
    \* nothing else is running
    /\ routes = <<>>
    /\ router = OptimizedRouter_new
    /\ finalized = FALSE
    /\ lookup = NoLookup
    /\ h2c = NoClient /\ h2_wire = NoWire
    /\ shared_queues = SharedQueueRegistry_new /\ queue_subscriptions = NoSubscriptions
    /\ notifying = NotNotifying /\ queue_log = NoQueueLog
    /\ frame = NoFrame /\ max_size = 0 /\ stage = "start"
    /\ encoded = <<>> /\ result = Pending
    /\ sent = <<>> /\ wire = <<>> /\ buffer = <<>> /\ max_message_size = 0
    /\ decoded = <<>> /\ last_decode = "idle"
    /\ grpc_feature = FALSE /\ http_ctx = NoContext /\ last_call = NoCall
    /\ current_config = 0 /\ connections = NoConnections /\ started = 0
    /\ acquire_calls = NoCalls /\ release_calls = NoCalls
    /\ tick_configs = TickRegistry_new /\ tick_now = 0 /\ callbacks = NoCallbacks
    /\ host_state_lock = NoHolders /\ tick_log = NoTickLog
    /\ http_exec = NoExecution
    /\ h3_stream = NoH3Stream
    /\ route_cache = <<>> /\ snapshot = 0 /\ lookups = NoLookups
    /\ grpc_timeout = NoTimeout
    /\ grpc_message = NoMessage
    /\ grpc_stream = GrpcStreamState_new
    /\ buffering = NoBuffering
    /\ key_routes = <<>> /\ key_cache = <<>> /\ key_lookup = NoKeyLookup
    /\ h3_body = NoH3Body
    /\ h3_request = NoH3Request

\* read_frame is short of bytes and awaits read_more (client.rs:355-357,
\* 364-366): the transport delivers the next n bytes, or Ok(0) at the end
ReadMore ==
    /\ \/ h2_read.pc = "header"
          /\ h2_read.buf_end - h2_read.buf_start < FrameHeader_SIZE
       \/ h2_read.pc = "payload"
          /\ h2_read.buf_end - h2_read.buf_start < h2_read.total_len
    /\ IF h2_read.unread = <<>>
       THEN h2_read' = [h2_read EXCEPT !.pc = "closed"]
       ELSE \E n \in 1..Len(h2_read.unread) :
               /\ n <= make_room(h2_read).capacity
               /\ h2_read' = read_more(h2_read, n)

\* read_frame decodes the header (client.rs:360-361); slicing from
\* buf_start panics when buf_start is past the vector's length
DecodeHeader ==
    /\ h2_read.pc = "header"
    /\ h2_read.buf_end - h2_read.buf_start >= FrameHeader_SIZE
    /\ h2_read' =
         IF h2_read.buf_start > Len(h2_read.read_buf)
         THEN [h2_read EXCEPT !.pc = "panicked"]
         ELSE LET header == decode_header(Drop(h2_read.read_buf, h2_read.buf_start))
              IN  IF header = None THEN [h2_read EXCEPT !.pc = "error"]
                  ELSE [h2_read EXCEPT !.pc = "payload",
                                       !.total_len = FrameHeader_SIZE + header[1]]

\* read_frame decodes the frame and returns it (client.rs:369-380); slicing
\* the payload panics when the frame ends past the vector's length
ReturnFrame ==
    /\ h2_read.pc = "payload"
    /\ h2_read.buf_end - h2_read.buf_start >= h2_read.total_len
    /\ h2_read' =
         IF h2_read.buf_start + h2_read.total_len > Len(h2_read.read_buf)
         THEN [h2_read EXCEPT !.pc = "panicked"]
         ELSE LET read == SubSeq(h2_read.read_buf, h2_read.buf_start + 1,
                                 h2_read.buf_start + h2_read.total_len)
                  advanced == [h2_read EXCEPT !.pc = "header",
                                              !.returned = Append(@, read),
                                              !.buf_start = @ + h2_read.total_len]
              IN  IF advanced.buf_start > CompactAbove
                  THEN [compact_buffer(advanced) EXCEPT !.pc = "header"]
                  ELSE advanced

vars == <<framingVars, decoderVars, wasmVars, http3Vars, routerVars, h2Vars, queueVars, tickVars, execVars, h3sendVars, cacheVars, timeoutVars, messageVars, streamVars, bufferingVars, keyVars, h3bodyVars, h3requestVars, readVars>>

WasmNext ==
    \/ ProxyHttpCall /\ UNCHANGED <<framingVars, decoderVars, http3Vars, routerVars, h2Vars, queueVars, tickVars, execVars, h3sendVars, cacheVars, timeoutVars, messageVars, streamVars, bufferingVars, keyVars, h3bodyVars, h3requestVars, readVars>>
    \/ ProxyGrpcCall /\ UNCHANGED <<framingVars, decoderVars, http3Vars, routerVars, h2Vars, queueVars, tickVars, execVars, h3sendVars, cacheVars, timeoutVars, messageVars, streamVars, bufferingVars, keyVars, h3bodyVars, h3requestVars, readVars>>
    \/ ProxyGrpcStream /\ UNCHANGED <<framingVars, decoderVars, http3Vars, routerVars, h2Vars, queueVars, tickVars, execVars, h3sendVars, cacheVars, timeoutVars, messageVars, streamVars, bufferingVars, keyVars, h3bodyVars, h3requestVars, readVars>>
    \/ ProxyGrpcCancel /\ UNCHANGED <<framingVars, decoderVars, http3Vars, routerVars, h2Vars, queueVars, tickVars, execVars, h3sendVars, cacheVars, timeoutVars, messageVars, streamVars, bufferingVars, keyVars, h3bodyVars, h3requestVars, readVars>>
    \/ TakePendingHttpCalls /\ UNCHANGED <<framingVars, decoderVars, http3Vars, routerVars, h2Vars, queueVars, tickVars, execVars, h3sendVars, cacheVars, timeoutVars, messageVars, streamVars, bufferingVars, keyVars, h3bodyVars, h3requestVars, readVars>>
    \/ OnHttpCallComplete /\ UNCHANGED <<framingVars, decoderVars, http3Vars, routerVars, h2Vars, queueVars, tickVars, execVars, h3sendVars, cacheVars, timeoutVars, messageVars, streamVars, bufferingVars, keyVars, h3bodyVars, h3requestVars, readVars>>
SpecWasm == WasmInit /\ [][WasmNext]_vars

PropertyNext == CheckProperty /\ UNCHANGED <<framingVars, decoderVars, http3Vars, routerVars, h2Vars, queueVars, tickVars, execVars, h3sendVars, cacheVars, timeoutVars, messageVars, streamVars, bufferingVars, keyVars, h3bodyVars, h3requestVars, readVars>>
SpecProperty == PropertyInit /\ [][PropertyNext]_vars


FramingNext ==
    \/ Encode /\ UNCHANGED <<decoderVars, wasmVars, http3Vars, routerVars, h2Vars, queueVars, tickVars, execVars, h3sendVars, cacheVars, timeoutVars, messageVars, streamVars, bufferingVars, keyVars, h3bodyVars, h3requestVars, readVars>>
    \/ Decode /\ UNCHANGED <<decoderVars, wasmVars, http3Vars, routerVars, h2Vars, queueVars, tickVars, execVars, h3sendVars, cacheVars, timeoutVars, messageVars, streamVars, bufferingVars, keyVars, h3bodyVars, h3requestVars, readVars>>
SpecFraming == FramingInit /\ [][FramingNext]_vars

RawNext ==
    \/ ReceiveBytes /\ UNCHANGED <<decoderVars, wasmVars, http3Vars, routerVars, h2Vars, queueVars, tickVars, execVars, h3sendVars, cacheVars, timeoutVars, messageVars, streamVars, bufferingVars, keyVars, h3bodyVars, h3requestVars, readVars>>
    \/ Decode /\ UNCHANGED <<decoderVars, wasmVars, http3Vars, routerVars, h2Vars, queueVars, tickVars, execVars, h3sendVars, cacheVars, timeoutVars, messageVars, streamVars, bufferingVars, keyVars, h3bodyVars, h3requestVars, readVars>>
SpecRawDecode == RawInit /\ [][RawNext]_vars

DecoderNext ==
    \/ SendFrame /\ UNCHANGED <<framingVars, wasmVars, http3Vars, routerVars, h2Vars, queueVars, tickVars, execVars, h3sendVars, cacheVars, timeoutVars, messageVars, streamVars, bufferingVars, keyVars, h3bodyVars, h3requestVars, readVars>>
    \/ Push /\ UNCHANGED <<framingVars, wasmVars, http3Vars, routerVars, h2Vars, queueVars, tickVars, execVars, h3sendVars, cacheVars, timeoutVars, messageVars, streamVars, bufferingVars, keyVars, h3bodyVars, h3requestVars, readVars>>
    \/ DecodeNext /\ UNCHANGED <<framingVars, wasmVars, http3Vars, routerVars, h2Vars, queueVars, tickVars, execVars, h3sendVars, cacheVars, timeoutVars, messageVars, streamVars, bufferingVars, keyVars, h3bodyVars, h3requestVars, readVars>>
SpecDecoder == DecoderInit /\ [][DecoderNext]_vars

Http3Next ==
    \/ SwapConfig /\ UNCHANGED <<framingVars, decoderVars, wasmVars, routerVars, h2Vars, queueVars, tickVars, execVars, h3sendVars, cacheVars, timeoutVars, messageVars, streamVars, bufferingVars, keyVars, h3bodyVars, h3requestVars, readVars>>
    \/ \E c \in Conns : NewConnection(c) /\ UNCHANGED <<framingVars, decoderVars, wasmVars, routerVars, h2Vars, queueVars, tickVars, execVars, h3sendVars, cacheVars, timeoutVars, messageVars, streamVars, bufferingVars, keyVars, h3bodyVars, h3requestVars, readVars>>
    \/ \E c \in Conns : CloseConnection(c) /\ UNCHANGED <<framingVars, decoderVars, wasmVars, routerVars, h2Vars, queueVars, tickVars, execVars, h3sendVars, cacheVars, timeoutVars, messageVars, streamVars, bufferingVars, keyVars, h3bodyVars, h3requestVars, readVars>>
    \/ \E c \in Conns : StartRequest(c) /\ UNCHANGED <<framingVars, decoderVars, wasmVars, routerVars, h2Vars, queueVars, tickVars, execVars, h3sendVars, cacheVars, timeoutVars, messageVars, streamVars, bufferingVars, keyVars, h3bodyVars, h3requestVars, readVars>>
    \/ \E c \in Conns : ServeMetrics(c) /\ UNCHANGED <<framingVars, decoderVars, wasmVars, routerVars, h2Vars, queueVars, tickVars, execVars, h3sendVars, cacheVars, timeoutVars, messageVars, streamVars, bufferingVars, keyVars, h3bodyVars, h3requestVars, readVars>>
    \/ \E c \in Conns : FindBackend(c) /\ UNCHANGED <<framingVars, decoderVars, wasmVars, routerVars, h2Vars, queueVars, tickVars, execVars, h3sendVars, cacheVars, timeoutVars, messageVars, streamVars, bufferingVars, keyVars, h3bodyVars, h3requestVars, readVars>>
    \/ \E c \in Conns : SelectServer(c) /\ UNCHANGED <<framingVars, decoderVars, wasmVars, routerVars, h2Vars, queueVars, tickVars, execVars, h3sendVars, cacheVars, timeoutVars, messageVars, streamVars, bufferingVars, keyVars, h3bodyVars, h3requestVars, readVars>>
    \/ \E c \in Conns : Acquire(c) /\ UNCHANGED <<framingVars, decoderVars, wasmVars, routerVars, h2Vars, queueVars, tickVars, execVars, h3sendVars, cacheVars, timeoutVars, messageVars, streamVars, bufferingVars, keyVars, h3bodyVars, h3requestVars, readVars>>
    \/ \E c \in Conns : ProxyToBackend(c) /\ UNCHANGED <<framingVars, decoderVars, wasmVars, routerVars, h2Vars, queueVars, tickVars, execVars, h3sendVars, cacheVars, timeoutVars, messageVars, streamVars, bufferingVars, keyVars, h3bodyVars, h3requestVars, readVars>>
    \/ \E c \in Conns : FinishRequest(c) /\ UNCHANGED <<framingVars, decoderVars, wasmVars, routerVars, h2Vars, queueVars, tickVars, execVars, h3sendVars, cacheVars, timeoutVars, messageVars, streamVars, bufferingVars, keyVars, h3bodyVars, h3requestVars, readVars>>
SpecHttp3 == Http3Init /\ [][Http3Next]_vars

RouterNext ==
    \/ AddRoute /\ UNCHANGED <<framingVars, decoderVars, wasmVars, http3Vars, h2Vars, queueVars, tickVars, execVars, h3sendVars, cacheVars, timeoutVars, messageVars, streamVars, bufferingVars, keyVars, h3bodyVars, h3requestVars, readVars>>
    \/ Finalize /\ UNCHANGED <<framingVars, decoderVars, wasmVars, http3Vars, h2Vars, queueVars, tickVars, execVars, h3sendVars, cacheVars, timeoutVars, messageVars, streamVars, bufferingVars, keyVars, h3bodyVars, h3requestVars, readVars>>
    \/ GetCandidates /\ UNCHANGED <<framingVars, decoderVars, wasmVars, http3Vars, h2Vars, queueVars, tickVars, execVars, h3sendVars, cacheVars, timeoutVars, messageVars, streamVars, bufferingVars, keyVars, h3bodyVars, h3requestVars, readVars>>
    \/ ReturnCandidates /\ UNCHANGED <<framingVars, decoderVars, wasmVars, http3Vars, h2Vars, queueVars, tickVars, execVars, h3sendVars, cacheVars, timeoutVars, messageVars, streamVars, bufferingVars, keyVars, h3bodyVars, h3requestVars, readVars>>
SpecRouter == RouterInit /\ [][RouterNext]_vars

H2Next ==
    \/ Handshake /\ UNCHANGED <<framingVars, decoderVars, wasmVars, http3Vars, routerVars, queueVars, tickVars, execVars, h3sendVars, cacheVars, timeoutVars, messageVars, streamVars, bufferingVars, keyVars, h3bodyVars, h3requestVars, readVars>>
    \/ ReceiveServerSettings /\ UNCHANGED <<framingVars, decoderVars, wasmVars, http3Vars, routerVars, queueVars, tickVars, execVars, h3sendVars, cacheVars, timeoutVars, messageVars, streamVars, bufferingVars, keyVars, h3bodyVars, h3requestVars, readVars>>
    \/ AwaitSettingsAck /\ UNCHANGED <<framingVars, decoderVars, wasmVars, http3Vars, routerVars, queueVars, tickVars, execVars, h3sendVars, cacheVars, timeoutVars, messageVars, streamVars, bufferingVars, keyVars, h3bodyVars, h3requestVars, readVars>>
    \/ SendRequest /\ UNCHANGED <<framingVars, decoderVars, wasmVars, http3Vars, routerVars, queueVars, tickVars, execVars, h3sendVars, cacheVars, timeoutVars, messageVars, streamVars, bufferingVars, keyVars, h3bodyVars, h3requestVars, readVars>>
    \/ SendData /\ UNCHANGED <<framingVars, decoderVars, wasmVars, http3Vars, routerVars, queueVars, tickVars, execVars, h3sendVars, cacheVars, timeoutVars, messageVars, streamVars, bufferingVars, keyVars, h3bodyVars, h3requestVars, readVars>>
    \/ ReceiveResponse /\ UNCHANGED <<framingVars, decoderVars, wasmVars, http3Vars, routerVars, queueVars, tickVars, execVars, h3sendVars, cacheVars, timeoutVars, messageVars, streamVars, bufferingVars, keyVars, h3bodyVars, h3requestVars, readVars>>
SpecH2 == H2Init /\ [][H2Next]_vars
\* The client task is scheduled and the peer keeps sending.
SpecH2Live == H2Init /\ [][H2Next]_vars /\ WF_vars(H2Next)

QueueNext ==
    \/ ProxyRegisterSharedQueue /\ UNCHANGED <<framingVars, decoderVars, wasmVars, http3Vars, routerVars, h2Vars, tickVars, execVars, h3sendVars, cacheVars, timeoutVars, messageVars, streamVars, bufferingVars, keyVars, h3bodyVars, h3requestVars, readVars>>
    \/ ProxyResolveSharedQueue /\ UNCHANGED <<framingVars, decoderVars, wasmVars, http3Vars, routerVars, h2Vars, tickVars, execVars, h3sendVars, cacheVars, timeoutVars, messageVars, streamVars, bufferingVars, keyVars, h3bodyVars, h3requestVars, readVars>>
    \/ ProxyEnqueueSharedQueue /\ UNCHANGED <<framingVars, decoderVars, wasmVars, http3Vars, routerVars, h2Vars, tickVars, execVars, h3sendVars, cacheVars, timeoutVars, messageVars, streamVars, bufferingVars, keyVars, h3bodyVars, h3requestVars, readVars>>
    \/ ProxyDequeueSharedQueue /\ UNCHANGED <<framingVars, decoderVars, wasmVars, http3Vars, routerVars, h2Vars, tickVars, execVars, h3sendVars, cacheVars, timeoutVars, messageVars, streamVars, bufferingVars, keyVars, h3bodyVars, h3requestVars, readVars>>
    \/ SubscribeToQueue /\ UNCHANGED <<framingVars, decoderVars, wasmVars, http3Vars, routerVars, h2Vars, tickVars, execVars, h3sendVars, cacheVars, timeoutVars, messageVars, streamVars, bufferingVars, keyVars, h3bodyVars, h3requestVars, readVars>>
    \/ UnsubscribeFromQueue /\ UNCHANGED <<framingVars, decoderVars, wasmVars, http3Vars, routerVars, h2Vars, tickVars, execVars, h3sendVars, cacheVars, timeoutVars, messageVars, streamVars, bufferingVars, keyVars, h3bodyVars, h3requestVars, readVars>>
    \/ NotifyQueueSubscribers /\ UNCHANGED <<framingVars, decoderVars, wasmVars, http3Vars, routerVars, h2Vars, tickVars, execVars, h3sendVars, cacheVars, timeoutVars, messageVars, streamVars, bufferingVars, keyVars, h3bodyVars, h3requestVars, readVars>>
    \/ DeliverQueueReady /\ UNCHANGED <<framingVars, decoderVars, wasmVars, http3Vars, routerVars, h2Vars, tickVars, execVars, h3sendVars, cacheVars, timeoutVars, messageVars, streamVars, bufferingVars, keyVars, h3bodyVars, h3requestVars, readVars>>
SpecQueue == QueueInit /\ [][QueueNext]_vars
\* a started notify_queue_subscribers loop runs to its end; nothing in the
\* source starts one, so the call itself carries no fairness
SpecQueueLive ==
    QueueInit /\ [][QueueNext]_vars
    /\ WF_vars(DeliverQueueReady /\ UNCHANGED <<framingVars, decoderVars, wasmVars, http3Vars, routerVars, h2Vars, tickVars, execVars, h3sendVars, cacheVars, timeoutVars, messageVars, streamVars, bufferingVars, keyVars, h3bodyVars, h3requestVars, readVars>>)

TickNext ==
    \/ AdvanceClock /\ UNCHANGED <<framingVars, decoderVars, wasmVars, http3Vars, routerVars, h2Vars, queueVars, execVars, h3sendVars, cacheVars, timeoutVars, messageVars, streamVars, bufferingVars, keyVars, h3bodyVars, h3requestVars, readVars>>
    \/ RegisterTick /\ UNCHANGED <<framingVars, decoderVars, wasmVars, http3Vars, routerVars, h2Vars, queueVars, execVars, h3sendVars, cacheVars, timeoutVars, messageVars, streamVars, bufferingVars, keyVars, h3bodyVars, h3requestVars, readVars>>
    \/ \E w \in TickWorkers : GetDueTicks(w) /\ UNCHANGED <<framingVars, decoderVars, wasmVars, http3Vars, routerVars, h2Vars, queueVars, execVars, h3sendVars, cacheVars, timeoutVars, messageVars, streamVars, bufferingVars, keyVars, h3bodyVars, h3requestVars, readVars>>
    \/ GetQueueSubscribers /\ UNCHANGED <<framingVars, decoderVars, wasmVars, http3Vars, routerVars, h2Vars, queueVars, execVars, h3sendVars, cacheVars, timeoutVars, messageVars, streamVars, bufferingVars, keyVars, h3bodyVars, h3requestVars, readVars>>
    \/ RequestReachesHook /\ UNCHANGED <<framingVars, decoderVars, wasmVars, http3Vars, routerVars, h2Vars, queueVars, execVars, h3sendVars, cacheVars, timeoutVars, messageVars, streamVars, bufferingVars, keyVars, h3bodyVars, h3requestVars, readVars>>
    \/ \E w \in TickWorkers : OnTick(w) /\ UNCHANGED <<framingVars, decoderVars, wasmVars, http3Vars, routerVars, h2Vars, queueVars, execVars, h3sendVars, cacheVars, timeoutVars, messageVars, streamVars, bufferingVars, keyVars, h3bodyVars, h3requestVars, readVars>>
    \/ OnQueueReady /\ UNCHANGED <<framingVars, decoderVars, wasmVars, http3Vars, routerVars, h2Vars, queueVars, execVars, h3sendVars, cacheVars, timeoutVars, messageVars, streamVars, bufferingVars, keyVars, h3bodyVars, h3requestVars, readVars>>
    \/ RequestHook /\ UNCHANGED <<framingVars, decoderVars, wasmVars, http3Vars, routerVars, h2Vars, queueVars, execVars, h3sendVars, cacheVars, timeoutVars, messageVars, streamVars, bufferingVars, keyVars, h3bodyVars, h3requestVars, readVars>>
    \/ \E t \in CallbackThreads : CallbackReturns(t) /\ UNCHANGED <<framingVars, decoderVars, wasmVars, http3Vars, routerVars, h2Vars, queueVars, execVars, h3sendVars, cacheVars, timeoutVars, messageVars, streamVars, bufferingVars, keyVars, h3bodyVars, h3requestVars, readVars>>
SpecTick == TickInit /\ [][TickNext]_vars

ExecNext ==
    \/ ExecConnect /\ UNCHANGED <<framingVars, decoderVars, wasmVars, http3Vars, routerVars, h2Vars, queueVars, tickVars, h3sendVars, cacheVars, timeoutVars, messageVars, streamVars, bufferingVars, keyVars, h3bodyVars, h3requestVars, readVars>>
    \/ ExecTls /\ UNCHANGED <<framingVars, decoderVars, wasmVars, http3Vars, routerVars, h2Vars, queueVars, tickVars, h3sendVars, cacheVars, timeoutVars, messageVars, streamVars, bufferingVars, keyVars, h3bodyVars, h3requestVars, readVars>>
    \/ ExecWrite /\ UNCHANGED <<framingVars, decoderVars, wasmVars, http3Vars, routerVars, h2Vars, queueVars, tickVars, h3sendVars, cacheVars, timeoutVars, messageVars, streamVars, bufferingVars, keyVars, h3bodyVars, h3requestVars, readVars>>
    \/ ExecRead /\ UNCHANGED <<framingVars, decoderVars, wasmVars, http3Vars, routerVars, h2Vars, queueVars, tickVars, h3sendVars, cacheVars, timeoutVars, messageVars, streamVars, bufferingVars, keyVars, h3bodyVars, h3requestVars, readVars>>
    \/ ExecTlsRead /\ UNCHANGED <<framingVars, decoderVars, wasmVars, http3Vars, routerVars, h2Vars, queueVars, tickVars, h3sendVars, cacheVars, timeoutVars, messageVars, streamVars, bufferingVars, keyVars, h3bodyVars, h3requestVars, readVars>>
    \/ ExecAnswer /\ UNCHANGED <<framingVars, decoderVars, wasmVars, http3Vars, routerVars, h2Vars, queueVars, tickVars, h3sendVars, cacheVars, timeoutVars, messageVars, streamVars, bufferingVars, keyVars, h3bodyVars, h3requestVars, readVars>>
SpecExec == ExecInit /\ [][ExecNext]_vars

H3SendNext ==
    \/ StreamUnblocks /\ UNCHANGED <<framingVars, decoderVars, wasmVars, http3Vars, routerVars, h2Vars, queueVars, tickVars, execVars, cacheVars, timeoutVars, messageVars, streamVars, bufferingVars, keyVars, h3bodyVars, h3requestVars, readVars>>
    \/ StreamBlocks /\ UNCHANGED <<framingVars, decoderVars, wasmVars, http3Vars, routerVars, h2Vars, queueVars, tickVars, execVars, cacheVars, timeoutVars, messageVars, streamVars, bufferingVars, keyVars, h3bodyVars, h3requestVars, readVars>>
    \/ SendResponse /\ UNCHANGED <<framingVars, decoderVars, wasmVars, http3Vars, routerVars, h2Vars, queueVars, tickVars, execVars, cacheVars, timeoutVars, messageVars, streamVars, bufferingVars, keyVars, h3bodyVars, h3requestVars, readVars>>
    \/ FlushPartialResponses /\ UNCHANGED <<framingVars, decoderVars, wasmVars, http3Vars, routerVars, h2Vars, queueVars, tickVars, execVars, cacheVars, timeoutVars, messageVars, streamVars, bufferingVars, keyVars, h3bodyVars, h3requestVars, readVars>>
SpecH3Send == H3SendInit /\ [][H3SendNext]_vars
\* the peer unblocks the stream, handle_request runs on, and the poll loop
\* keeps calling process_events
SpecH3SendLive ==
    H3SendInit /\ [][H3SendNext]_vars
    /\ WF_vars(StreamUnblocks /\ UNCHANGED <<framingVars, decoderVars, wasmVars, http3Vars, routerVars, h2Vars, queueVars, tickVars, execVars, cacheVars, timeoutVars, messageVars, streamVars, bufferingVars, keyVars, h3bodyVars, h3requestVars, readVars>>)
    /\ WF_vars(SendResponse /\ UNCHANGED <<framingVars, decoderVars, wasmVars, http3Vars, routerVars, h2Vars, queueVars, tickVars, execVars, cacheVars, timeoutVars, messageVars, streamVars, bufferingVars, keyVars, h3bodyVars, h3requestVars, readVars>>)
    /\ WF_vars(FlushPartialResponses /\ UNCHANGED <<framingVars, decoderVars, wasmVars, http3Vars, routerVars, h2Vars, queueVars, tickVars, execVars, cacheVars, timeoutVars, messageVars, streamVars, bufferingVars, keyVars, h3bodyVars, h3requestVars, readVars>>)

CacheNext ==
    \/ \E w \in CacheWorkers : StartLookup(w) /\ UNCHANGED <<framingVars, decoderVars, wasmVars, http3Vars, routerVars, h2Vars, queueVars, tickVars, execVars, h3sendVars, timeoutVars, messageVars, streamVars, bufferingVars, keyVars, h3bodyVars, h3requestVars, readVars>>
    \/ \E w \in CacheWorkers : TryCache(w) /\ UNCHANGED <<framingVars, decoderVars, wasmVars, http3Vars, routerVars, h2Vars, queueVars, tickVars, execVars, h3sendVars, timeoutVars, messageVars, streamVars, bufferingVars, keyVars, h3bodyVars, h3requestVars, readVars>>
    \/ \E w \in CacheWorkers : CacheResult(w) /\ UNCHANGED <<framingVars, decoderVars, wasmVars, http3Vars, routerVars, h2Vars, queueVars, tickVars, execVars, h3sendVars, timeoutVars, messageVars, streamVars, bufferingVars, keyVars, h3bodyVars, h3requestVars, readVars>>
    \/ SwapSnapshot /\ UNCHANGED <<framingVars, decoderVars, wasmVars, http3Vars, routerVars, h2Vars, queueVars, tickVars, execVars, h3sendVars, timeoutVars, messageVars, streamVars, bufferingVars, keyVars, h3bodyVars, h3requestVars, readVars>>
SpecCache == CacheInit /\ [][CacheNext]_vars

IndexNext ==
    \/ AddIndexRoute /\ UNCHANGED <<framingVars, decoderVars, wasmVars, http3Vars, h2Vars, queueVars, tickVars, execVars, h3sendVars, cacheVars, timeoutVars, messageVars, streamVars, bufferingVars, keyVars, h3bodyVars, h3requestVars, readVars>>
    \/ Finalize /\ UNCHANGED <<framingVars, decoderVars, wasmVars, http3Vars, h2Vars, queueVars, tickVars, execVars, h3sendVars, cacheVars, timeoutVars, messageVars, streamVars, bufferingVars, keyVars, h3bodyVars, h3requestVars, readVars>>
    \/ GetHostCandidates /\ UNCHANGED <<framingVars, decoderVars, wasmVars, http3Vars, h2Vars, queueVars, tickVars, execVars, h3sendVars, cacheVars, timeoutVars, messageVars, streamVars, bufferingVars, keyVars, h3bodyVars, h3requestVars, readVars>>
    \/ GetPathCandidates /\ UNCHANGED <<framingVars, decoderVars, wasmVars, http3Vars, h2Vars, queueVars, tickVars, execVars, h3sendVars, cacheVars, timeoutVars, messageVars, streamVars, bufferingVars, keyVars, h3bodyVars, h3requestVars, readVars>>
    \/ GetIpCandidates /\ UNCHANGED <<framingVars, decoderVars, wasmVars, http3Vars, h2Vars, queueVars, tickVars, execVars, h3sendVars, cacheVars, timeoutVars, messageVars, streamVars, bufferingVars, keyVars, h3bodyVars, h3requestVars, readVars>>
    \/ ReturnCandidates /\ UNCHANGED <<framingVars, decoderVars, wasmVars, http3Vars, h2Vars, queueVars, tickVars, execVars, h3sendVars, cacheVars, timeoutVars, messageVars, streamVars, bufferingVars, keyVars, h3bodyVars, h3requestVars, readVars>>
SpecIndex == RouterInit /\ [][IndexNext]_vars

TimeoutNext ==
    \/ FormatGrpcTimeout /\ UNCHANGED <<framingVars, decoderVars, wasmVars, http3Vars, routerVars, h2Vars, queueVars, tickVars, execVars, h3sendVars, cacheVars, messageVars, streamVars, bufferingVars, keyVars, h3bodyVars, h3requestVars, readVars>>
    \/ ParseGrpcTimeout /\ UNCHANGED <<framingVars, decoderVars, wasmVars, http3Vars, routerVars, h2Vars, queueVars, tickVars, execVars, h3sendVars, cacheVars, messageVars, streamVars, bufferingVars, keyVars, h3bodyVars, h3requestVars, readVars>>
SpecTimeout == TimeoutInit /\ [][TimeoutNext]_vars

MessageNext ==
    \/ EncodeMessage /\ UNCHANGED <<framingVars, decoderVars, wasmVars, http3Vars, routerVars, h2Vars, queueVars, tickVars, execVars, h3sendVars, cacheVars, timeoutVars, streamVars, bufferingVars, keyVars, h3bodyVars, h3requestVars, readVars>>
    \/ DecodeMessage /\ UNCHANGED <<framingVars, decoderVars, wasmVars, http3Vars, routerVars, h2Vars, queueVars, tickVars, execVars, h3sendVars, cacheVars, timeoutVars, streamVars, bufferingVars, keyVars, h3bodyVars, h3requestVars, readVars>>
SpecMessage == MessageInit /\ [][MessageNext]_vars

StreamNext ==
    \/ OnRequestFrame /\ UNCHANGED <<framingVars, decoderVars, wasmVars, http3Vars, routerVars, h2Vars, queueVars, tickVars, execVars, h3sendVars, cacheVars, timeoutVars, messageVars, bufferingVars, keyVars, h3bodyVars, h3requestVars, readVars>>
    \/ OnResponseFrame /\ UNCHANGED <<framingVars, decoderVars, wasmVars, http3Vars, routerVars, h2Vars, queueVars, tickVars, execVars, h3sendVars, cacheVars, timeoutVars, messageVars, bufferingVars, keyVars, h3bodyVars, h3requestVars, readVars>>
    \/ OnClientDone /\ UNCHANGED <<framingVars, decoderVars, wasmVars, http3Vars, routerVars, h2Vars, queueVars, tickVars, execVars, h3sendVars, cacheVars, timeoutVars, messageVars, bufferingVars, keyVars, h3bodyVars, h3requestVars, readVars>>
    \/ OnServerDone /\ UNCHANGED <<framingVars, decoderVars, wasmVars, http3Vars, routerVars, h2Vars, queueVars, tickVars, execVars, h3sendVars, cacheVars, timeoutVars, messageVars, bufferingVars, keyVars, h3bodyVars, h3requestVars, readVars>>
    \/ OnTrailersSent /\ UNCHANGED <<framingVars, decoderVars, wasmVars, http3Vars, routerVars, h2Vars, queueVars, tickVars, execVars, h3sendVars, cacheVars, timeoutVars, messageVars, bufferingVars, keyVars, h3bodyVars, h3requestVars, readVars>>
SpecStream == StreamInit /\ [][StreamNext]_vars

BufferingNext ==
    \/ ResponseHeaders /\ UNCHANGED <<framingVars, decoderVars, wasmVars, http3Vars, routerVars, h2Vars, queueVars, tickVars, execVars, h3sendVars, cacheVars, timeoutVars, messageVars, streamVars, keyVars, h3bodyVars, h3requestVars, readVars>>
    \/ ShouldBuffer /\ UNCHANGED <<framingVars, decoderVars, wasmVars, http3Vars, routerVars, h2Vars, queueVars, tickVars, execVars, h3sendVars, cacheVars, timeoutVars, messageVars, streamVars, keyVars, h3bodyVars, h3requestVars, readVars>>
SpecBuffering == BufferingInit /\ [][BufferingNext]_vars

KeyNext ==
    \/ CachedLookup /\ UNCHANGED <<framingVars, decoderVars, wasmVars, http3Vars, routerVars, h2Vars, queueVars, tickVars, execVars, h3sendVars, cacheVars, timeoutVars, messageVars, streamVars, bufferingVars, h3bodyVars, h3requestVars, readVars>>
SpecCacheKey == KeyInit /\ [][KeyNext]_vars

H3BodyNext ==
    \/ SendResponseBody /\ UNCHANGED <<framingVars, decoderVars, wasmVars, http3Vars, routerVars, h2Vars, queueVars, tickVars, execVars, h3sendVars, cacheVars, timeoutVars, messageVars, streamVars, bufferingVars, keyVars, h3requestVars, readVars>>
    \/ FlushBody /\ UNCHANGED <<framingVars, decoderVars, wasmVars, http3Vars, routerVars, h2Vars, queueVars, tickVars, execVars, h3sendVars, cacheVars, timeoutVars, messageVars, streamVars, bufferingVars, keyVars, h3requestVars, readVars>>
SpecH3Body == H3BodyInit /\ [][H3BodyNext]_vars

H3RequestNext ==
    \/ ProcessH3Events /\ UNCHANGED <<framingVars, decoderVars, wasmVars, http3Vars, routerVars, h2Vars, queueVars, tickVars, execVars, h3sendVars, cacheVars, timeoutVars, messageVars, streamVars, bufferingVars, keyVars, h3bodyVars, readVars>>
SpecH3Request == H3RequestInit /\ [][H3RequestNext]_vars

H2ReadNext ==
    \/ ReadMore /\ UNCHANGED <<framingVars, decoderVars, wasmVars, http3Vars, routerVars, h2Vars, queueVars, tickVars, execVars, h3sendVars, cacheVars, timeoutVars, messageVars, streamVars, bufferingVars, keyVars, h3bodyVars, h3requestVars>>
    \/ DecodeHeader /\ UNCHANGED <<framingVars, decoderVars, wasmVars, http3Vars, routerVars, h2Vars, queueVars, tickVars, execVars, h3sendVars, cacheVars, timeoutVars, messageVars, streamVars, bufferingVars, keyVars, h3bodyVars, h3requestVars>>
    \/ ReturnFrame /\ UNCHANGED <<framingVars, decoderVars, wasmVars, http3Vars, routerVars, h2Vars, queueVars, tickVars, execVars, h3sendVars, cacheVars, timeoutVars, messageVars, streamVars, bufferingVars, keyVars, h3bodyVars, h3requestVars>>
SpecH2Read == H2ReadInit /\ [][H2ReadNext]_vars

\* ========================================================================
\* Properties: gRPC framing
\* ========================================================================
RoundTrips == result = Ok(frame, Len(encoded))
EncodingIsInjective == \A g \in Frames : encode(g) = encoded => g = frame

\* C9 (as stated): for every message M = (compressed flag, payload), decoding
\* encode(M) returns exactly M and consumes exactly the encoded length, and no
\* other (flag, payload) pair encodes to the same bytes.
C9_RoundTripEveryMessage ==
    /\ stage = "decoded" => RoundTrips
    /\ stage # "start" => EncodingIsInjective

\* C9 (amended): the round trip holds for every message whose payload is no
\* longer than the max_size the decoder is given; encoding is injective.
C9_RoundTripWithinMaxSize ==
    /\ (stage = "decoded" /\ Len(frame.data) <= max_size) => RoundTrips
    /\ stage # "start" => EncodingIsInjective

\* C9 witness: a compressed two-byte message decoded under a limit of two bytes.
C9_Witness ==
    /\ stage = "decoded" /\ frame.compressed /\ Len(frame.data) = 2
    /\ max_size = 2 /\ result.tag = "Ok"

IsPrefix(p, s) == Len(p) <= Len(s) /\ Take(s, Len(p)) = p
FramesFit == \A i \in 1..Len(sent) : Len(sent[i].data) <= max_message_size
\* decode_next answered Ok(None) only while no whole next frame is buffered.
NoneOnlyWhenPartial ==
    last_decode = "none" =>
        IF Len(decoded) = Len(sent) THEN buffer = <<>>
        ELSE Len(buffer) < Len(encode(sent[Len(decoded) + 1]))
StreamDecodesExactly ==
    /\ IsPrefix(decoded, sent)
    /\ last_decode # "err"
    /\ NoneOnlyWhenPartial
    /\ (last_decode = "none" /\ wire = <<>>) => decoded = sent

\* C10 (as stated): for any sequence of frames and any split of their
\* concatenated encoding into push() calls, repeated decode_next() yields
\* exactly those frames, whole and in order, and Ok(None) while only a part
\* of the next frame has arrived.
C10_StreamYieldsEveryFrame == StreamDecodesExactly

\* C10 (amended): the same, for frames whose payloads do not exceed the
\* decoder's max_message_size.
C10_StreamYieldsFramesWithinMax == FramesFit => StreamDecodesExactly

\* C10 witness: two different frames, fully pushed and both decoded.
C10_Witness ==
    /\ Len(sent) >= 2 /\ sent[1] # sent[2] /\ sent[1].data # <<>>
    /\ FramesFit /\ decoded = sent /\ last_decode = "none"

\* ========================================================================
\* Properties: Proxy-Wasm capability checks
\* ========================================================================
IsGrpcStart == last_call.fn \in {"proxy_grpc_call", "proxy_grpc_stream"}

\* C5: proxy_grpc_call and proxy_grpc_stream record a pending call or stream
\* only if the module has the HTTP-call capability and the upstream passes the
\* upstream allowlist; otherwise the call returns NOT_ALLOWED and records
\* nothing.  (Stated for builds with the grpc feature and readable arguments.)
C5_GrpcCallsAreGated ==
    (/\ grpc_feature /\ IsGrpcStart /\ last_call.checked
     /\ ~is_upstream_allowed(http_ctx.capabilities, last_call.upstream))
        => (last_call.ret = PROXY_RESULT_NOT_ALLOWED /\ ~last_call.recorded)

\* C6: with allow_http_calls = false every proxy_http_call returns NOT_ALLOWED,
\* no token is ever allocated and the pending-call table stays empty, whatever
\* the arguments and whatever calls came before.
C6_HttpCallDeniedWithoutCapability ==
    ~http_ctx.capabilities.allow_http_calls =>
        /\ http_ctx.pending_http_calls = {}
        /\ http_ctx.next_http_call_token = 1
        /\ last_call.fn = "proxy_http_call" =>
               (last_call.ret = PROXY_RESULT_NOT_ALLOWED /\ ~last_call.recorded)

\* C6 witness: a denied proxy_http_call made after a gRPC call was registered.
C6_Witness ==
    /\ ~http_ctx.capabilities.allow_http_calls
    /\ last_call.fn = "proxy_http_call"
    /\ last_call.ret = PROXY_RESULT_NOT_ALLOWED
    /\ http_ctx.next_grpc_call_id > 1

\* C7: a proxy_http_call naming an upstream outside the module's non-empty
\* allowlist returns PROXY_RESULT_NOT_ALLOWED and creates no pending entry.
\* (last_call.checked: the call got as far as the allowlist check.)
C7_UnlistedUpstreamIsNotAllowed ==
    (/\ last_call.fn = "proxy_http_call" /\ last_call.checked
     /\ http_ctx.capabilities.allow_http_calls
     /\ http_ctx.capabilities.allowed_upstreams # {}
     /\ last_call.upstream \notin http_ctx.capabilities.allowed_upstreams)
        => (last_call.ret = PROXY_RESULT_NOT_ALLOWED /\ ~last_call.recorded)

\* The patterns that make a path readable according to C8.
ListedInDotTree(list, path) ==
    \/ path \in list
    \/ Star \in list
    \/ \E pattern \in list :
          /\ EndsWith(pattern, DotStar)
          /\ LET P == Take(pattern, Len(pattern) - 2)
             IN  path = P \/ StartsWith(path, P \o <<".">>)

\* C8: a property path is readable only if allowed_properties contains the
\* exact path, the pattern *, or a pattern P.* with the path equal to P or
\* under P in the dot-separated tree; with an empty list nothing is readable.
C8_PropertyReadableOnlyIfListed ==
    (last_call.fn = "is_property_allowed" /\ last_call.ret = PROXY_RESULT_OK)
        => ListedInDotTree(http_ctx.capabilities.allowed_properties, last_call.path)

\* ========================================================================
\* Properties: HTTP/3 snapshots and upstream accounting
\* ========================================================================
InFlight(c) == connections[c].pc \notin {"idle"}

\* C2: a request that starts after a configuration swap is routed against the
\* new snapshot, also on an HTTP/3 connection opened before the swap: the
\* tables given to find_backend are those of the snapshot that was current
\* when the request started.
C2_RequestRoutedAgainstSnapshotAtStart ==
    \A c \in Conns :
        (InFlight(c) /\ connections[c].routed) =>
            /\ connections[c].used_host = connections[c].start_config
            /\ connections[c].used_path = connections[c].start_config

\* C3: no request observes a mixed snapshot: the host-route table and the
\* path-route table of a handler come from one snapshot, they are the tables
\* find_backend is given, and they stay the same from the start of a request
\* to its end although swaps interleave.
C3_NoMixedSnapshot ==
    \A c \in Conns :
        /\ connections[c].open => connections[c].host_routes = connections[c].path_routes
        /\ InFlight(c) =>
              /\ connections[c].host_routes = connections[c].start_routes.host_routes
              /\ connections[c].path_routes = connections[c].start_routes.path_routes
        /\ (InFlight(c) /\ connections[c].routed) =>
              /\ connections[c].used_host = connections[c].used_path
              /\ connections[c].used_host = connections[c].start_routes.host_routes

\* C3 witness: a request routed on a connection opened after a swap, while a
\* further swap has happened since the request started.
C3_Witness ==
    \E c \in Conns :
        /\ connections[c].pc = "done" /\ connections[c].routed
        /\ connections[c].used_host = 1 /\ connections[c].used_path = 1
        /\ current_config = 2

ProxiedInFlight(s) ==
    Cardinality({c \in Conns : connections[c].pc = "acquired" /\ connections[c].server = s})

\* C4: on every exit path of the proxy branch each acquire() is matched by one
\* release(): acquire calls minus release calls on a server always equals the
\* number of proxied requests in flight on it.
C4_AcquireReleaseBalanced ==
    \A s \in Servers : acquire_calls[s] - release_calls[s] = ProxiedInFlight(s)

\* C4 witness: one proxied request has completed on s1 while a second one is
\* in flight on the same server.
C4_Witness ==
    /\ acquire_calls["s1"] = 2 /\ release_calls["s1"] = 1
    /\ \E c \in Conns : connections[c].pc = "acquired" /\ connections[c].server = "s1"

\* ========================================================================
\* Properties: routing
\* ========================================================================
\* The conditions of one route, tested on their own.
HostMatches(cond, host) ==
    \/ cond = None
    \/ LET pattern == cond[1]
           h == host_only(host)
       IN  IF StartsWith(pattern, <<"*", ".">>)
           THEN wildcard_matches(to_lowercase(Drop(pattern, 2)), h)
           ELSE IF EndsWith(pattern, <<".", "*">>)
           THEN wildcard_matches(<<PrefixTag>> \o to_lowercase(Take(pattern, Len(pattern) - 2)), h)
           ELSE to_lowercase(pattern) = h
PathMatches(cond, path) == cond = None \/ matches_pattern(cond[1], path)
SourceIpMatches(cond, ip) ==
    \/ cond = None
    \/ \E i \in 1..Len(cond[1]) :
          LET cidr == cond[1][i]
          IN  IF cidr.prefix_len = NoPrefix THEN cidr.network = ip
              ELSE masked_equal(ip, cidr.network, cidr.prefix_len)
\* The naive linear scan: the indices of the matching routes, ascending.
NaiveScan(host, path, ip) ==
    Ascending({i - 1 : i \in {j \in 1..Len(routes) :
                                /\ HostMatches(routes[j].host, host)
                                /\ PathMatches(routes[j].path, path)
                                /\ SourceIpMatches(routes[j].source_ip, ip)}})

\* C1: for every set of routes added in declaration order and every request,
\* get_candidates returns exactly the routes whose host, path and source-IP
\* conditions each match, in ascending index order.
C1_CandidatesAreTheMatchingRoutes ==
    lookup.done =>
        lookup.candidates = NaiveScan(lookup.host, lookup.path, lookup.source_ip)

\* ========================================================================
\* Properties: decoding received bytes
\* ========================================================================
HeaderLength(buf) == U32FromBe(buf[2], buf[3], buf[4], buf[5])

\* C11: a header that declares a length above the maximum message size is
\* rejected with MessageTooLarge as soon as the 5 header bytes are there,
\* whatever part of the payload has arrived; no payload is extracted.
C11_OversizedHeaderRejectedAtOnce ==
    (/\ stage = "decoded"
     /\ Len(encoded) >= GRPC_FRAME_HEADER_SIZE
     /\ HeaderLength(encoded) > max_size)
        => result = MessageTooLarge(HeaderLength(encoded), max_size)

\* C11 witness: only the 5 header bytes have arrived and the declared length
\* is above the default maximum.
C11_Witness ==
    /\ stage = "decoded"
    /\ Len(encoded) = GRPC_FRAME_HEADER_SIZE
    /\ max_size = GRPC_MAX_MESSAGE_SIZE
    /\ HeaderLength(encoded) > max_size
    /\ result.tag = "MessageTooLarge"

\* C12: the decoder reports a frame as compressed exactly when bit 0 of the
\* flags byte is set, for every value of the flags byte.
C12_CompressedIsBitZero ==
    (stage = "decoded" /\ result.tag = "Ok")
        => (result.frame.compressed <=> (encoded[1] % 2 = 1))

\* ========================================================================
\* Properties: HTTP/2 client
\* ========================================================================
\* C13: every DATA chunk the client writes fits the connection send window
\* and the stream send window (the peer's initial window size plus the
\* WINDOW_UPDATE increments received), so the bytes sent never exceed either.
C13_DataStaysWithinSendWindows ==
    ~h2_wire.overran

\* C14: a request body that is being sent is eventually sent in full: when a
\* send window is exhausted the sender waits for a WINDOW_UPDATE and resumes.
C14_BodyEventuallySent ==
    \A n \in 1..MaxH2Requests :
        (h2_wire.requests = n /\ h2c.pc = "sending") ~> (n \in h2_wire.completed)

\* C15: every DATA frame received is subtracted from the connection receive
\* window and from its stream's receive window, and a WINDOW_UPDATE goes out
\* whenever either is below half its initial value: the connection window the
\* client tracks equals what the peer may still send.
C15_ReceiveWindowsTracked ==
    /\ h2c.conn_recv_window = h2_wire.peer_conn_allow
    /\ ~h2_wire.low_unanswered

\* C16: the requests of one connection use odd stream ids that increase by 2,
\* and no request is sent with a stream id above 2^31 - 1.
C16_StreamIdsOddIncreasingBounded ==
    \A i \in 1..Len(h2_wire.streams_started) :
        /\ h2_wire.streams_started[i].lo % 2 = 1
        /\ ~AboveMaxStreamId(h2_wire.streams_started[i])
        /\ i > 1 => h2_wire.streams_started[i] = U32Add2(h2_wire.streams_started[i - 1])

\* C17: once a GOAWAY has been received, during the handshake or while a
\* response is awaited, the client starts no new stream.
C17_NoStreamAfterGoAway ==
    ~h2_wire.started_after_goaway

\* C18: every SETTINGS frame without ack that the client reads, in the
\* handshake's ack wait and while awaiting a response, is applied and
\* answered with exactly one SETTINGS ack.
C18_EverySettingsAppliedAndAcked ==
    /\ h2_wire.acks_sent = h2_wire.settings_received
    /\ h2_wire.settings_applied

\* ---- shared queue properties ---------------------------------------------
\* the enqueue of the latest host call was over a bound: the queue was full
\* or the message longer than MAX_MESSAGE_SIZE
EnqueueOverBound ==
    /\ queue_log.fn = "enqueue"
    /\ queue_log.before /= None
    /\ \/ Len(queue_log.before[1]) >= MAX_QUEUE_SIZE
       \/ queue_log.size > MAX_MESSAGE_SIZE

\* C19: after every successful proxy_enqueue_shared_queue(id, data), each
\* module subscribed to the queue eventually receives on_queue_ready(id).
C19_SubscribersEventuallyNotified ==
    \A m \in Modules, q \in QueueIdArgs :
        (<<m, q>> \in queue_log.owed) ~> (<<m, q>> \notin queue_log.owed)

\* C20: every shared queue holds at most 1000 messages of at most 64 KiB
\* each; an enqueue over either bound is rejected and leaves the queue as
\* it was.
C20_QueuesStayBounded ==
    /\ \A q \in QueueIdArgs :
         shared_queues.queues[q] /= None =>
           /\ Len(shared_queues.queues[q][1]) <= MAX_QUEUE_SIZE
           /\ \A i \in 1..Len(shared_queues.queues[q][1]) :
                shared_queues.queues[q][1][i] <= MAX_MESSAGE_SIZE
    /\ EnqueueOverBound =>
         /\ queue_log.rc /= PROXY_RESULT_OK
         /\ shared_queues.queues[queue_log.queue_id] = queue_log.before

\* an enqueue on a full queue has been refused
C20_Witness ==
    /\ EnqueueOverBound
    /\ Len(queue_log.before[1]) = MAX_QUEUE_SIZE
    /\ queue_log.rc = PROXY_RESULT_NOT_FOUND

\* ---- tick and callback properties ------------------------------------------
\* C21: after a module has set its tick period to 0, it receives no on_tick
\* callback until it sets a non-zero period again.
C21_NoTickAfterPeriodZero == tick_log.ticked_after_zero = {}

OutstandingHttpCalls ==
    {c.token : c \in http_ctx.pending_http_calls} \cup http_ctx.taken_http_calls

\* C23: a context never has more than max_http_calls HTTP calls outstanding;
\* a call that would exceed the limit is refused with an error and is not
\* recorded.
C23_OutstandingHttpCallsBounded ==
    /\ Cardinality(OutstandingHttpCalls) <= http_ctx.capabilities.max_http_calls
    /\ (last_call.fn = "proxy_http_call" /\ last_call.ret = PROXY_RESULT_INTERNAL_FAILURE)
          => ~last_call.recorded

\* ---- HTTP call executor properties -----------------------------------------
\* C24: executing a pending HTTP call always produces a response for the
\* module: the upstream's response on success, a synthetic response with
\* status 504 on any failure; execution never ends without a response.
ExecStep ==
    ExecConnect \/ ExecTls \/ ExecWrite \/ ExecRead \/ ExecTlsRead \/ ExecAnswer
C25_ResponseEventuallyWritten ==
    (h3_stream.pc /= "idle") ~> (h3_stream.headers_written \/ h3_stream.dead)

Elements(v) == {v[i] : i \in 1..Len(v)}

\* C27: a route whose path pattern is P/* is a path candidate for request
\* path p exactly when p equals P or p begins with P followed by '/',
\* whatever other path patterns are registered in the same router.
C27_StarPatternCandidates ==
    (lookup.done /\ lookup.path # <<>>) =>
        \A j \in 1..Len(routes) :
            (routes[j].path # None /\ EndsWith(routes[j].path[1], <<"/", "*">>)) =>
                LET P == Take(routes[j].path[1], Len(routes[j].path[1]) - 2)
                IN  Contains(lookup.candidates, j - 1)
                        <=> (lookup.path = P \/ StartsWith(lookup.path, P \o <<"/">>))

\* h is L.S for one non-empty label L without a dot
SingleLabelBefore(h, S) ==
    /\ Len(h) > Len(S) + 1
    /\ EndsWith(h, <<".">> \o S)
    /\ \A i \in 1..(Len(h) - Len(S) - 1) : h[i] # "."

\* C28: a route with host pattern *.S is a host candidate for host h exactly
\* when h is L.S for a single non-empty label L that contains no dot.
C28_WildcardHostCandidates ==
    (lookup.done /\ lookup.host # <<>>) =>
        \A name \in IndexHostNames, upper \in BOOLEAN, port \in IndexPorts :
            lookup.host = HostValue(name, upper, port) =>
                \A j \in 1..Len(routes) :
                    (routes[j].host # None /\ StartsWith(routes[j].host[1], <<"*", ".">>)) =>
                        (Contains(lookup.candidates, j - 1)
                            <=> SingleLabelBefore(name, to_lowercase(Drop(routes[j].host[1], 2))))

\* the host index of the same routes with every pattern in lowercase
RECURSIVE LowercaseHostRouter(_)
LowercaseHostRouter(rs) ==
    IF rs = <<>> THEN HostRouter_new
    ELSE LET last == rs[Len(rs)]
         IN  HostRouter_add_route(LowercaseHostRouter(Take(rs, Len(rs) - 1)), Len(rs) - 1,
                 IF last.host = None THEN None ELSE Some(to_lowercase(last.host[1])))

\* C29: host matching ignores letter case and any port: for every host value
\* H or H:port in any letter case and every host pattern in any letter case,
\* the host candidates are those of lowercase H against the lowercase patterns.
C29_HostCaseAndPortIgnored ==
    (lookup.done /\ lookup.host # <<>>) =>
        \A name \in IndexHostNames, upper \in BOOLEAN, port \in IndexPorts :
            lookup.host = HostValue(name, upper, port) =>
                Elements(lookup.candidates)
                    = Elements(HostRouter_get_candidates(LowercaseHostRouter(routes), name))

\* C29 witness: an uppercase host with a port is looked up where an uppercase
\* pattern is registered, and the pattern's route is a candidate.
C29_Witness ==
    /\ lookup.done
    /\ lookup.host = HostValue(<<"a", ".", "b">>, TRUE, <<":", "8">>)
    /\ \E j \in 1..Len(routes) :
          /\ routes[j].host \in {Some(<<"A", ".", "B">>), Some(<<"*", ".", "B">>)}
          /\ Contains(lookup.candidates, j - 1)

\* bit i of a 32-bit address, counted from the most significant bit
\* (2^31 is written as 2 * 2^30)
Bit(a, i) == IF i = 1 THEN (a \div (2 ^ 30)) \div 2 ELSE (a \div (2 ^ (32 - i))) % 2
FirstBitsEqual(a, n, L) == \A i \in 1..L : Bit(a, i) = Bit(n, i)
\* the length of a range; a bare address counts as /32
RangeLength(cidr) == IF cidr.prefix_len = NoPrefix THEN 32 ELSE cidr.prefix_len

\* C30: a route with source range N/L is a source-IP candidate for client
\* address a exactly when the first L bits of a equal the first L bits of N,
\* a bare address counting as /32.
C30_RangeCandidates ==
    (lookup.done /\ lookup.source_ip # 0) =>
        \A j \in 1..Len(routes) :
            routes[j].source_ip # None =>
                (Contains(lookup.candidates, j - 1)
                    <=> \E k \in 1..Len(routes[j].source_ip[1]) :
                           FirstBitsEqual(lookup.source_ip, routes[j].source_ip[1][k].network,
                                          RangeLength(routes[j].source_ip[1][k])))

\* C30 witness: 10.255.255.255 is looked up where 10.0.0.0/8 and the bare
\* address 10.0.0.1 are registered; only the /8 route is a candidate.
C30_Witness ==
    /\ lookup.done
    /\ lookup.source_ip = from_be_bytes(10, 255, 255, 255)
    /\ Len(routes) = 2
    /\ routes[1].source_ip = Some(<<[network |-> from_be_bytes(10, 0, 0, 0), prefix_len |-> 8]>>)
    /\ routes[2].source_ip = Some(<<[network |-> from_be_bytes(10, 0, 0, 1), prefix_len |-> NoPrefix]>>)
    /\ lookup.candidates = <<0>>

\* ========================================================================
\* Properties: grpc-timeout
\* ========================================================================
\* C31: for every duration d that is an exact multiple of one of the
\* supported units (every duration is a multiple of the nanosecond),
\* parse_grpc_timeout(format_grpc_timeout(d)) = d.
C31_TimeoutRoundTrip ==
    grpc_timeout.pc = "parsed" => grpc_timeout.parsed = Some(grpc_timeout.duration)

\* ========================================================================
\* Properties: grpc-message
\* ========================================================================
\* C32: for every status message m (any UTF-8 text), decoding the
\* percent-encoded grpc-message produced for m returns m.
C32_MessageRoundTrip ==
    grpc_message.pc = "decoded" => grpc_message.decoded = Some(grpc_message.message)

\* ========================================================================
\* Properties: gRPC stream type
\* ========================================================================
StreamTypeOf(requests, responses) ==
    IF requests > 1 /\ responses > 1 THEN "BidirectionalStreaming"
    ELSE IF requests > 1 THEN "ClientStreaming"
    ELSE IF responses > 1 THEN "ServerStreaming"
    ELSE "Unary"

\* C33: after any sequence of request-frame and response-frame events, in any
\* interleaving, the stream type depends only on the two message counts:
\* unary if each direction carried at most one message, client-streaming if
\* only the request count exceeds one, server-streaming if only the response
\* count exceeds one, bidirectional if both do.
C33_StreamTypeFromCounts ==
    grpc_stream.stream_type
        = StreamTypeOf(grpc_stream.request_frames, grpc_stream.response_frames)

\* C33 witness: a stream with two request frames and three response frames
\* is bidirectional.
C33_Witness ==
    /\ grpc_stream.stream_type = "BidirectionalStreaming"
    /\ grpc_stream.request_frames = 2
    /\ grpc_stream.response_frames = 3

\* ========================================================================
\* Properties: response buffering
\* ========================================================================
\* C34: in Streaming mode never buffer, in Full mode always buffer, and in
\* Adaptive mode buffer exactly when the upstream's Content-Length is known
\* and is less than or equal to adaptive_threshold; an unknown Content-Length
\* is streamed.
C34_BufferingDecision ==
    buffering.pc = "decided" =>
        /\ buffering.config.mode = "Streaming" => ~buffering.buffered
        /\ buffering.config.mode = "Full" => buffering.buffered
        /\ buffering.config.mode = "Adaptive" =>
              (buffering.buffered
                  <=> \E n \in 0..buffering.config.adaptive_threshold :
                         buffering.content_length = Some(n))

\* C34 witness: Adaptive mode, a Content-Length of exactly the default
\* threshold, buffered.
C34_Witness ==
    /\ buffering.pc = "decided"
    /\ buffering.config = BufferingConfig("Adaptive", DEFAULT_ADAPTIVE_THRESHOLD)
    /\ buffering.content_length = Some(DEFAULT_ADAPTIVE_THRESHOLD)
    /\ buffering.buffered

\* ========================================================================
\* Properties: route cache key
\* ========================================================================
\* C35: a lookup answered from the route cache returns the result the full
\* matching algorithm, with its method, header and query verification, would
\* return for that request against the same snapshot; two requests that share
\* a cache key never receive an answer that is wrong for one of them.
C35_CacheAnswerIsFullMatch ==
    key_lookup.count > 0 =>
        key_lookup.answer = FullMatch(key_routes, key_lookup.request)

\* ========================================================================
\* Properties: HTTP/3 response body
\* ========================================================================
\* C36: for every HTTP/3 response with a body, the bytes written to the
\* stream across the first send and all later flushes are exactly the body,
\* in order, with nothing lost or repeated, for any pattern of partial writes
\* and blocked streams, and the stream is finished only with the last byte:
\* the stream always holds a prefix of the body, it is finished only when it
\* holds all of it, and once nothing is kept for flushing it holds all of it.
C36_StreamReceivesExactlyTheBody ==
    /\ Len(h3_body.stream) <= Len(h3_body.body)
    /\ h3_body.stream = Take(h3_body.body, Len(h3_body.stream))
    /\ h3_body.fin => h3_body.stream = h3_body.body
    /\ (h3_body.pc = "handled" /\ h3_body.partial_responses = None /\ ~h3_body.failed)
          => (h3_body.stream = h3_body.body /\ h3_body.fin)

\* ========================================================================
\* Properties: HTTP/3 request body
\* ========================================================================
\* C37: the request body handed to the request handler for an HTTP/3 stream
\* is the complete body the client sent on that stream, for any split of the
\* headers and body data across packets and event-polling rounds, and each
\* request is handled exactly once.
C37_HandlerGetsTheWholeBody ==
    /\ Len(h3_request.handled) <= 1
    /\ (h3_request.rounds > 0 /\ h3_request.events = <<>>)
          => h3_request.handled = <<h3_request.body>>

\* ------------------------------------------------------------------------
\* C38: a proxy_dequeue_shared_queue call that returns a status other than
\* PROXY_RESULT_OK leaves the queue it named as it was before the call: a
\* message leaves a shared queue only when it was delivered to the caller.
C38_FailedDequeueKeepsQueue ==
    (queue_log.fn = "dequeue" /\ queue_log.rc /= PROXY_RESULT_OK)
        => shared_queues.queues[queue_log.queue_id] = queue_log.before

\* ------------------------------------------------------------------------
\* C39: a proxy_http_call that returns a status other than PROXY_RESULT_OK
\* leaves the context's pending-call table unchanged: a pending entry exists
\* only for a call whose token was returned to the module.
C39_FailedHttpCallKeepsPendingTable ==
    (last_call.fn = "proxy_http_call" /\ last_call.ret /= PROXY_RESULT_OK)
        => ~last_call.recorded

\* ------------------------------------------------------------------------
\* C40: however the transport splits the peer's bytes across reads,
\* read_frame returns the peer's frames in order, each once, without failing
\* on them, and 0 <= buf_start <= buf_end <= read_buf.len() always holds.
C40_FramesReadInOrder ==
    /\ IsPrefix(h2_read.returned, h2_read.peer_frames)
    /\ h2_read.pc \notin {"panicked", "error"}
    /\ h2_read.buf_start <= h2_read.buf_end
    /\ h2_read.buf_end <= Len(h2_read.read_buf)

====
